---- MODULE Spec2Model ----
(***************************************************************************)
(* Model of the flame.cat web viewer and its React facade.                 *)
(*                                                                         *)
(*   - LaneManager (web/src/app/lane-manager.ts): the shared time window,  *)
(*     the ordered lanes and the vertical layout.                          *)
(*   - bindInteraction (web/src/app/interaction.ts): mouse, wheel and      *)
(*     keyboard handlers and the requestAnimationFrame driven animation.   *)
(*   - hitTest / loadFile (web/src/main.ts), hitTest (react/src/render.ts).*)
(*   - FlameCatStore (react/src/store.ts) and the useFlameGraph            *)
(*     controller (react/src/useFlameGraph.ts).                            *)
(*                                                                         *)
(* Fractions of the timeline are fixed-point numbers: the integer n stands *)
(* for n / One.  Every arithmetic step of the code is carried out exactly; *)
(* an input whose result would fall between two grid points is not         *)
(* offered (the Exact guards), so the model follows the real-number        *)
(* semantics of the code on the inputs it enumerates.                      *)
(***************************************************************************)
EXTENDS Integers, Sequences, FiniteSets, TLC

VARIABLES
    viewStart,      \* LaneManager.viewStart
    viewEnd,        \* LaneManager.viewEnd
    globalScrollY,  \* LaneManager.globalScrollY
    lanes,          \* LaneManager.lanes
    profileLoaded,  \* main.ts: profileLoaded
    drag,           \* bindInteraction: drag
    timeSelection,  \* bindInteraction: timeSelection
    animationId,    \* bindInteraction: animationId (NoId is null)
    raf,            \* the browser's pending requestAnimationFrame callbacks
    wasm,           \* FlameCatStore.wasm is set
    pending,        \* FlameCatStore.pending
    status,         \* FlameCatStore._status
    error,          \* FlameCatStore._error
    listeners,      \* FlameCatStore.listeners, in insertion order
    snapshot,       \* FlameCatStore.snapshot
    wasmState,      \* the viewer state behind WasmExports.getState()
    stack,          \* the JavaScript call stack inside the store, innermost last
    nextCmd,        \* number the next submitted command gets
    log,            \* history: commands started and finished, in order
    queuedAtAttach, \* history: the pending queue when attach was called
    ctl,            \* the useFlameGraph controller: wasm, isReady, pending
    layout,         \* the command list wasm.render_view returns, per lane id
    renderViewCalls,\* number of wasm.render_view calls made by hit tests
    hitResult,      \* what the last hitTest of main.ts returned
    spans,          \* the spans prop of the FlameGraph component
    hitRegions,     \* hitRegionsRef.current of the FlameGraph component
    hoveredId,      \* hoveredId of the FlameGraph component
    session,        \* the profiles of the viewer's session
    profileDuration,\* profileDuration of main.ts
    loads,          \* loadFile calls waiting for file.arrayBuffer()
    searchQuery,    \* main.ts: searchQuery, as a sequence of characters
    selectedSpanName,\* main.ts: selectedSpanName, with the selectedFrameId set along with it
    unsearched,     \* history: output and selection of the last renderAll without a query
    webgpu,         \* WebGPURenderer.render: transform stack, current transform, clip stack, scissor
    canvas2d,       \* CanvasRenderer.render: the context's saved states, its transform and clip
    buffers,        \* WebGPURenderer: the instance buffers and their capacities
    svg,            \* SvgRenderer.render: the element tree built so far and currentGroup
    groups,         \* history: the groups BeginGroup opened, and those an EndGroup closed
    wasd,           \* bindInteraction: wasdState and wasdAnimId
    keyboard,       \* the keyboard: the W/A/S/D keys held down and Shift
    providerError,  \* FlameCatProvider: the error state of the component
    nesting,        \* history: per renderer, the clips and transforms in force before each open SetClip / PushTransform
    steps,          \* number of inputs consumed so far (bounds the run)
    lastOp          \* history: the operation just performed and its inputs

laneVars == <<viewStart, viewEnd, globalScrollY, lanes>>

interactionVars == <<profileLoaded, drag, timeSelection, animationId, raf>>

hitVars == <<layout, renderViewCalls, hitResult, spans, hitRegions, hoveredId>>

loadVars == <<session, profileDuration, loads>>

searchVars == <<searchQuery, selectedSpanName, unsearched>>

renderVars == <<webgpu, canvas2d, nesting, buffers>>

svgVars == <<svg, groups>>

hostVars == <<wasd, keyboard, providerError>>

storeVars == <<wasm, pending, status, error, listeners, snapshot, wasmState, stack, nextCmd,
               log, queuedAtAttach, ctl>>

\* ------------------------------------------------------------------------
\* Numbers
\* ------------------------------------------------------------------------

\* The fraction 1.0 on the fixed-point grid.
One == 660000

\* 0.0001, the smallest span zoomAt allows.
MinSpan == One \div 10000

\* canvas.clientWidth in CSS pixels.
CanvasWidth == 1000

Max(a, b) == IF a >= b THEN a ELSE b

Min(a, b) == IF a <= b THEN a ELSE b

Abs(a) == IF a >= 0 THEN a ELSE -a

\* A JavaScript number handed to a hook: NaN, or the number v.
NaN == [nan |-> TRUE, v |-> 0]

Num(v) == [nan |-> FALSE, v |-> v]

\* a < b and a >= b of JavaScript: false when either side is NaN.
lt(a, b) == ~a.nan /\ ~b.nan /\ a.v < b.v

ge(a, b) == ~a.nan /\ ~b.nan /\ a.v >= b.v

\* Math.max(a, b) and Math.min(a, b): NaN when either argument is NaN.
mathMax(a, b) == IF a.nan \/ b.nan THEN NaN ELSE Num(Max(a.v, b.v))

mathMin(a, b) == IF a.nan \/ b.nan THEN NaN ELSE Num(Min(a.v, b.v))

\* n * p / q is a whole number.
Exact(n, p, q) == (n * p) % q = 0

\* n * p / q, for Exact(n, p, q).
MulDiv(n, p, q) == (n * p) \div q

\* ------------------------------------------------------------------------
\* LaneManager: the shared time window
\* ------------------------------------------------------------------------

\* A factor is a positive rational [n, d] = n / d.
\* span / factor with 0.01 as the smallest span.
NewSpanCoarseFloor(span, f) ==
    IF span * f.d <= (One \div 100) * f.n THEN One \div 100
    ELSE IF span * f.d >= One * f.n THEN One
    ELSE MulDiv(span, f.d, f.n)

\* span / factor, clamped into [0.0001, 1].
NewSpan(span, f) ==
    IF span * f.d <= MinSpan * f.n THEN MinSpan
    ELSE IF span * f.d >= One * f.n THEN One
    ELSE MulDiv(span, f.d, f.n)

\* The arithmetic of zoomAt is exact on the grid.
zoomExact(vs, ve, f, focalX, canvasWidth) ==
    LET viewSpan == ve - vs
        newSpan == NewSpan(viewSpan, f)
    IN  /\ \/ viewSpan * f.d <= MinSpan * f.n
           \/ viewSpan * f.d >= One * f.n
           \/ Exact(viewSpan, f.d, f.n)
        /\ Exact(viewSpan, focalX, canvasWidth)
        /\ Exact(newSpan, focalX, canvasWidth)

\* zoomAt without the re-clamp of start when end hits 1.
zoomAtNoReclamp(vs, ve, f, focalX, canvasWidth) ==
    LET viewSpan == ve - vs
        focalTime == vs + MulDiv(viewSpan, focalX, canvasWidth)
        newSpan == NewSpan(viewSpan, f)
        s1 == Max(0, focalTime - MulDiv(newSpan, focalX, canvasWidth))
    IN  [viewStart |-> s1, viewEnd |-> Min(One, s1 + newSpan)]

\* LaneManager.zoomAt(factor, focalX, canvasWidth)
zoomAt(vs, ve, f, focalX, canvasWidth) ==
    LET viewSpan == ve - vs
        focalTime == vs + MulDiv(viewSpan, focalX, canvasWidth)
        newSpan == NewSpan(viewSpan, f)
        s1 == Max(0, focalTime - MulDiv(newSpan, focalX, canvasWidth))
        e1 == Min(One, s1 + newSpan)
    IN  IF e1 >= One
        THEN [viewStart |-> Max(0, One - newSpan), viewEnd |-> e1]
        ELSE [viewStart |-> s1, viewEnd |-> e1]

\* The arithmetic of scrollBy is exact on the grid.
scrollExact(vs, ve, dx, canvasWidth) == Exact(ve - vs, dx, canvasWidth)

\* scrollBy that moves start but keeps the old end.
scrollByKeepEnd(vs, ve, dx, canvasWidth) ==
    LET viewSpan == ve - vs
        timeDelta == MulDiv(viewSpan, dx, canvasWidth)
    IN  [viewStart |-> Max(0, Min(One - viewSpan, vs + timeDelta)), viewEnd |-> ve]

\* LaneManager.scrollBy(dx, _dy, canvasWidth)
scrollBy(vs, ve, dx, canvasWidth) ==
    LET viewSpan == ve - vs
        timeDelta == MulDiv(viewSpan, dx, canvasWidth)
        s1 == Max(0, Min(One - viewSpan, vs + timeDelta))
    IN  [viewStart |-> s1, viewEnd |-> s1 + viewSpan]

\* ------------------------------------------------------------------------
\* LaneManager: lanes and the vertical layout.  Indices are 0-based as in
\* the code; -1 is "not found".
\* ------------------------------------------------------------------------

HEADER_HEIGHT == 28

DRAG_HANDLE_SIZE == 6

\* LaneManager.visibleLanes
visibleLanes(ls) == SelectSeq(ls, LAMBDA l : l.visible)

RECURSIVE SumHeights(_, _)
\* Sum of header + height over the first n lanes of vis (those that exist).
SumHeights(vis, n) ==
    IF n <= 0 THEN 0
    ELSE SumHeights(vis, n - 1) + (IF n <= Len(vis) THEN HEADER_HEIGHT + vis[n].height ELSE 0)

\* laneY counting the hidden lanes as well.
laneYAllLanes(ls, index) == SumHeights(ls, index)

\* LaneManager.laneY(index)
laneY(ls, index) == SumHeights(visibleLanes(ls), index)

\* LaneManager.totalHeight()
totalHeight(ls) == SumHeights(visibleLanes(ls), Len(visibleLanes(ls)))

RECURSIVE laneAtYFrom(_, _, _, _)
\* The loop of laneAtY from visible index i with running offset.
laneAtYFrom(vis, i, offset, y) ==
    IF i >= Len(vis) THEN -1
    ELSE LET laneEnd == offset + HEADER_HEIGHT + vis[i + 1].height
         IN  IF y >= offset /\ y < laneEnd THEN i
             ELSE laneAtYFrom(vis, i + 1, laneEnd, y)

\* laneAtY that does not take the global scroll into account.
laneAtYNoScroll(ls, gsy, y) == laneAtYFrom(visibleLanes(ls), 0, 0, y)

\* LaneManager.laneAtY(y)
laneAtY(ls, gsy, y) == laneAtYFrom(visibleLanes(ls), 0, -gsy, y)

RECURSIVE dragHandleFrom(_, _, _, _)
\* The loop of isOnDragHandle from visible index i with running offset.
dragHandleFrom(vis, i, offset, y) ==
    IF i >= Len(vis) THEN -1
    ELSE LET off2 == offset + HEADER_HEIGHT + vis[i + 1].height
         IN  IF Abs(y - off2) <= DRAG_HANDLE_SIZE THEN i
             ELSE dragHandleFrom(vis, i + 1, off2, y)

\* LaneManager.isOnDragHandle(y)
isOnDragHandle(ls, gsy, y) == dragHandleFrom(visibleLanes(ls), 0, -gsy, y)

\* Array.prototype.splice(i, 1): the sequence without its element at 0-based i.
RemoveAt(q, i) == SubSeq(q, 1, i) \o SubSeq(q, i + 2, Len(q))

\* Array.prototype.splice(i, 0, x): x inserted at 0-based position i.
InsertAt(q, i, x) == SubSeq(q, 1, i) \o <<x>> \o SubSeq(q, i + 1, Len(q))

\* moveLane exchanging the two lanes instead of moving one.
moveLaneSwap(ls, fromIndex, toIndex) ==
    IF fromIndex = toIndex THEN ls
    ELSE IF fromIndex < 0 \/ fromIndex >= Len(ls) THEN ls
    ELSE IF toIndex < 0 \/ toIndex >= Len(ls) THEN ls
    ELSE [ls EXCEPT ![fromIndex + 1] = ls[toIndex + 1], ![toIndex + 1] = ls[fromIndex + 1]]

\* LaneManager.moveLane(fromIndex, toIndex)
moveLane(ls, fromIndex, toIndex) ==
    IF fromIndex = toIndex THEN ls
    ELSE IF fromIndex < 0 \/ fromIndex >= Len(ls) THEN ls
    ELSE IF toIndex < 0 \/ toIndex >= Len(ls) THEN ls
    ELSE InsertAt(RemoveAt(ls, fromIndex), toIndex, ls[fromIndex + 1])

\* LaneManager.visibleToFullIndex(visibleIndex)
visibleToFullIndex(ls, visibleIndex) ==
    LET vis == visibleLanes(ls)
    IN  IF visibleIndex < 0 \/ visibleIndex >= Len(vis) THEN -1
        ELSE (CHOOSE k \in 1..Len(ls) : ls[k].id = vis[visibleIndex + 1].id) - 1

\* scrollGlobal whose upper limit ignores the viewport height.
scrollGlobalNoFloor(ls, gsy, dy, viewportHeight) ==
    Max(0, Min(totalHeight(ls), gsy + dy))

\* LaneManager.scrollGlobal(dy, viewportHeight): the new globalScrollY
scrollGlobal(ls, gsy, dy, viewportHeight) ==
    LET maxScroll == Max(0, totalHeight(ls) - viewportHeight)
    IN  Max(0, Min(maxScroll, gsy + dy))

\* ------------------------------------------------------------------------
\* The LaneManager driven directly through its public methods
\* ------------------------------------------------------------------------

\* Largest number of inputs in one run.
MaxSteps == 4

\* Zoom factors offered to zoomAt: the wheel's 0.9 and 1.1, the keys' 1.2
\* and 0.8, and 2, 1/2, 100, 1/100.
Factors ==
    { [n |-> 9, d |-> 10], [n |-> 11, d |-> 10], [n |-> 6, d |-> 5], [n |-> 4, d |-> 5],
      [n |-> 2, d |-> 1], [n |-> 1, d |-> 2], [n |-> 100, d |-> 1], [n |-> 1, d |-> 100] }

\* Focal points in pixels.
FocalXs == {0, 250, 500, 1000}

\* Horizontal pixel deltas.
ScrollDxs == {-500, -40, 40, 250, 2000}

NoOp == [op |-> "none"]

InitLaneManager ==
    /\ viewStart = 0
    /\ viewEnd = One
    /\ globalScrollY = 0
    /\ lanes = <<>>

\* null
Null == [null |-> TRUE]

\* The null animation-frame handle.
NoId == 0

InitInteraction ==
    /\ drag = [kind |-> "none"]
    /\ timeSelection = Null
    /\ animationId = NoId
    /\ raf = {}
    /\ wasd = [keys |-> {}, active |-> FALSE, panVelocity |-> 0, zoomVelocity |-> 0,
               animId |-> FALSE]
    /\ keyboard = [down |-> {}, shift |-> FALSE]

\* EMPTY_SNAPSHOT, as far as the model follows it.
EMPTY_SNAPSHOT ==
    [theme |-> "dark", search |-> "", lanes |-> <<>>,
     viewport |-> [start |-> Num(0), end |-> Num(One)], profile |-> Null]

\* new FlameCatStore() and a fresh useFlameGraph() controller.
InitStore ==
    /\ wasm = FALSE
    /\ pending = <<>>
    /\ status = "loading"
    /\ error = Null
    /\ listeners = <<>>
    /\ snapshot = EMPTY_SNAPSHOT
    /\ wasmState = [theme |-> "dark", search |-> "", lanes |-> <<>>,
                    viewport |-> [start |-> Num(0), end |-> Num(One)], profile |-> Null]
    /\ stack = <<>>
    /\ nextCmd = 1
    /\ log = <<>>
    /\ queuedAtAttach = <<>>
    /\ ctl = [wasm |-> FALSE, isReady |-> FALSE, pending |-> <<>>, log |-> <<>>, queued |-> <<>>]
    /\ providerError = Null

\* frame_id of a DrawRect that carries none.
NoFrame == -1

\* The result of a hit test that found nothing (null).
NoHit == [found |-> FALSE]

\* hoveredId when no span is hovered (undefined).
NoSpan == -1

\* No canvas has been laid out or hit-tested.
InitCanvas ==
    /\ layout = <<>>
    /\ renderViewCalls = 0
    /\ hitResult = NoHit
    /\ spans = <<>>
    /\ hitRegions = <<>>
    /\ hoveredId = NoSpan

\* main.ts before any file is loaded.
InitLoad ==
    /\ session = <<>>
    /\ profileDuration = 0
    /\ loads = {}

\* An absent label or name (null).
NoText == [some |-> FALSE, text |-> <<>>]

\* The transform before any PushTransform.
Identity == [tx |-> 0, ty |-> 0, sx |-> 1, sy |-> 1]

\* No clip is set (currentScissor is null; the context's initial clip).
NoClip == [none |-> TRUE]

\* A renderer before its first buffer: capacity 0, buffer undefined.
NoBuffer == [capacity |-> 0, id |-> 0]

\* The renderers at the start of render(): empty stacks, identity, no clip.
InitRender ==
    /\ webgpu = [transformStack |-> <<>>, cur |-> Identity, clipStack |-> <<>>,
                 currentScissor |-> NoClip]
    /\ canvas2d = [saved |-> <<>>, transform |-> Identity, clip |-> NoClip,
                   transformStack |-> <<>>]
    /\ nesting = [webgpu |-> [clips |-> <<>>, txs |-> <<>>],
                  canvas2d |-> [clips |-> <<>>, txs |-> <<>>]]
    /\ buffers = [rect |-> NoBuffer, instance |-> NoBuffer]
    /\ svg = [parent |-> <<0>>, currentGroup |-> 1]
    /\ groups = [open |-> <<>>, closed |-> {}]

\* No span is selected: selectedSpanName is null and no lane has a
\* selectedFrameId.
NoSelection == [some |-> FALSE, text |-> <<>>, frame |-> NoFrame]

\* main.ts after start-up: no query, no selection.
InitSearch ==
    /\ searchQuery = <<>>
    /\ selectedSpanName = NoSelection
    /\ unsearched = [cmds |-> <<>>, selected |-> NoSelection]

InitLane ==
    /\ InitLaneManager
    /\ profileLoaded = FALSE
    /\ InitInteraction
    /\ InitStore
    /\ InitCanvas
    /\ InitLoad
    /\ InitSearch
    /\ InitRender
    /\ steps = 0
    /\ lastOp = NoOp

\* laneManager.zoomAt(factor, focalX, canvasWidth)
CallZoomAt ==
    \E f \in Factors, focalX \in FocalXs :
        /\ steps < MaxSteps
        /\ zoomExact(viewStart, viewEnd, f, focalX, CanvasWidth)
        /\ LET r == zoomAt(viewStart, viewEnd, f, focalX, CanvasWidth)
           IN  /\ viewStart' = r.viewStart
               /\ viewEnd' = r.viewEnd
        /\ lastOp' = [op |-> "zoomAt", f |-> f, focalX |-> focalX,
                      preStart |-> viewStart, preEnd |-> viewEnd,
                      prev |-> IF lastOp.op = "zoomAt"
                                 THEN [some |-> TRUE, f |-> lastOp.f, focalX |-> lastOp.focalX,
                                       preStart |-> lastOp.preStart, preEnd |-> lastOp.preEnd]
                                 ELSE [some |-> FALSE]]
        /\ steps' = steps + 1
        /\ UNCHANGED <<globalScrollY, lanes>>
        /\ UNCHANGED interactionVars
        /\ UNCHANGED <<storeVars, hostVars, hitVars, loadVars, searchVars, renderVars, svgVars>>

\* laneManager.scrollBy(dx, 0, canvasWidth)
CallScrollBy ==
    \E dx \in ScrollDxs :
        /\ steps < MaxSteps
        /\ scrollExact(viewStart, viewEnd, dx, CanvasWidth)
        /\ LET r == scrollBy(viewStart, viewEnd, dx, CanvasWidth)
           IN  /\ viewStart' = r.viewStart
               /\ viewEnd' = r.viewEnd
        /\ lastOp' = [op |-> "scrollBy", dx |-> dx,
                      preStart |-> viewStart, preEnd |-> viewEnd]
        /\ steps' = steps + 1
        /\ UNCHANGED <<globalScrollY, lanes>>
        /\ UNCHANGED interactionVars
        /\ UNCHANGED <<storeVars, hostVars, hitVars, loadVars, searchVars, renderVars, svgVars>>

vars == <<viewStart, viewEnd, globalScrollY, lanes, profileLoaded, drag, timeSelection,
          animationId, raf, wasm, pending, status, error, listeners, snapshot, wasmState,
          stack, nextCmd, log, queuedAtAttach, ctl, layout, renderViewCalls, hitResult,
          spans, hitRegions, hoveredId, session, profileDuration, loads, searchQuery,
          selectedSpanName, unsearched, webgpu, canvas2d, nesting, buffers, svg, groups,
          wasd, keyboard, providerError, steps, lastOp>>

NextLane ==
    \/ CallZoomAt
    \/ CallScrollBy

SpecLane == InitLane /\ [][NextLane]_vars

\* ------------------------------------------------------------------------
\* bindInteraction: mouse, wheel and keyboard handlers.  The canvas sits at
\* the top left corner of the window, so offsetX/offsetY and
\* clientX/clientY coincide; a mouse can be moved and released outside it.
\* ------------------------------------------------------------------------

MINIMAP_HEIGHT == 40

TIME_AXIS_HEIGHT == 24

\* 0.002: a minimap drag shorter than this is a click.
ClickSpan == One \div 500

\* 0.0005: a time selection narrower than this is cleared on release.
TinySelection == One \div 2000

\* canvas.clientHeight in CSS pixels.
CanvasHeight == 200

\* Largest number of user inputs in one run.
MaxEvents == 3

\* The time a viewport animation lasts (durationMs), in clock ticks.
AnimTicks == 2

\* Handles requestAnimationFrame hands out.
RafIds == 1..3

\* Pointer positions on the canvas, and positions a move or release can
\* also report.
DownXs == {10, 150, 500, 750}

MoveXs == DownXs \cup {-200, 1200}

\* 10: minimap; 50: time axis; 70: header of the first lane; 100: its body;
\* 150: the resize handle below it; 180: the second visible lane; 400 and
\* 1000: below the canvas, in the window.
DownYs == {10, 50, 70, 100, 150, 180}

MoveYs == DownYs \cup {400, 1000}

Keys == {"ArrowLeft", "ArrowRight", "ArrowUp", "ArrowDown", "+", "-", "Home", "0", "f", "z", "Escape"}

\* The lanes of a loaded profile: two visible threads and a hidden one.
LoadedLanes ==
    << [id |-> 1, height |-> 60, visible |-> TRUE, scrollY |-> 0, profileIndex |-> 0],
       [id |-> 2, height |-> 40, visible |-> FALSE, scrollY |-> 0, profileIndex |-> 0],
       [id |-> 3, height |-> 100, visible |-> TRUE, scrollY |-> 0, profileIndex |-> 0] >>

\* minimapHeight(): the callback main.ts passes to bindInteraction
minimapHeight == IF profileLoaded THEN MINIMAP_HEIGHT + TIME_AXIS_HEIGHT ELSE 0

\* xToFrac(x)
xToFrac(x) == Max(0, Min(One, MulDiv(One, x, CanvasWidth)))

\* xToViewFrac(x)
xToViewFrac(x) == viewStart + MulDiv(viewEnd - viewStart, x, CanvasWidth)

\* isInMinimap(y)
isInMinimap(y) == profileLoaded /\ y < minimapHeight - 24

\* isInTimeAxis(y)
isInTimeAxis(y) == profileLoaded /\ y >= minimapHeight - 24 /\ y < minimapHeight

\* isOnMinimapViewport(x, y)
isOnMinimapViewport(x, y) ==
    /\ isInMinimap(y)
    /\ x * One >= viewStart * CanvasWidth
    /\ x * One <= viewEnd * CanvasWidth

\* cancelAnimationFrame(id)
cancelAnimationFrame(q, id) == {fr \in q : fr.id # id}

\* requestAnimationFrame can hand out a handle.
HasFreshId(q, held) == \E i \in RafIds : i \notin ({fr.id : fr \in q} \cup held)

\* The handle requestAnimationFrame returns: one that names no pending
\* callback and is not held by the caller.
FreshId(q, held) == CHOOSE i \in RafIds : i \notin ({fr.id : fr \in q} \cup held)

\* animateViewTo that does not cancel the animation already running.
animateViewToNoCancel(q, aid, targetStart, targetEnd) ==
    LET id == FreshId(q, {aid})
    IN  [raf |-> q \cup {[id |-> id, cb |-> "step", fromStart |-> viewStart, fromEnd |-> viewEnd,
                          targetStart |-> targetStart, targetEnd |-> targetEnd, elapsed |-> 0]},
         animationId |-> id]

\* animateViewTo(targetStart, targetEnd): the pending callbacks and
\* animationId it leaves.  elapsed is now - startTime at the last frame.
animateViewTo(q, aid, targetStart, targetEnd) ==
    LET q1 == IF aid # NoId THEN cancelAnimationFrame(q, aid) ELSE q
        id == FreshId(q1, {aid})
    IN  [raf |-> q1 \cup {[id |-> id, cb |-> "step", fromStart |-> viewStart, fromEnd |-> viewEnd,
                           targetStart |-> targetStart, targetEnd |-> targetEnd, elapsed |-> 0]},
         animationId |-> id]

\* Numerator of the cubic ease-out 1 - (1 - t)^3 at t = e / AnimTicks; the
\* denominator is AnimTicks^3.
EaseNum(e) == AnimTicks * AnimTicks * AnimTicks - (AnimTicks - e) * (AnimTicks - e) * (AnimTicks - e)

EaseDen == AnimTicks * AnimTicks * AnimTicks

\* The browser runs a pending frame of animateViewTo: step(now).
AnimStep ==
    \E fr \in raf, dt \in 1..AnimTicks :
        LET e == Min(AnimTicks, fr.elapsed + dt)
        IN  /\ fr.cb = "step"
            /\ Exact(fr.targetStart - fr.fromStart, EaseNum(e), EaseDen)
            /\ Exact(fr.targetEnd - fr.fromEnd, EaseNum(e), EaseDen)
            /\ viewStart' = fr.fromStart + MulDiv(fr.targetStart - fr.fromStart, EaseNum(e), EaseDen)
            /\ viewEnd' = fr.fromEnd + MulDiv(fr.targetEnd - fr.fromEnd, EaseNum(e), EaseDen)
            /\ IF e < AnimTicks
               THEN /\ HasFreshId(raf \ {fr}, {})
                    /\ LET id == FreshId(raf \ {fr}, {})
                       IN  /\ raf' = (raf \ {fr}) \cup {[fr EXCEPT !.id = id, !.elapsed = e]}
                           /\ animationId' = id
               ELSE /\ raf' = raf \ {fr}
                    /\ animationId' = NoId
            /\ lastOp' = [op |-> "animStep"]
            /\ UNCHANGED <<globalScrollY, lanes, profileLoaded, drag, timeSelection, steps>>
            /\ UNCHANGED <<storeVars, hostVars, hitVars, loadVars, searchVars, renderVars, svgVars>>

\* onWheel(e)
OnWheel ==
    \E ctrlKey \in BOOLEAN, shiftKey \in BOOLEAN, deltaX \in {0, 250},
       deltaY \in {-40, 40}, offsetX \in {500, 750} :
        /\ steps < MaxEvents
        /\ steps' = steps + 1
        /\ lastOp' = [op |-> IF ctrlKey THEN "wheelZoom" ELSE "wheelScroll"]
        /\ IF ctrlKey
           THEN LET f == IF deltaY > 0 THEN [n |-> 9, d |-> 10] ELSE [n |-> 11, d |-> 10]
                    r == zoomAt(viewStart, viewEnd, f, offsetX, CanvasWidth)
                IN  /\ zoomExact(viewStart, viewEnd, f, offsetX, CanvasWidth)
                    /\ viewStart' = r.viewStart
                    /\ viewEnd' = r.viewEnd
                    /\ UNCHANGED globalScrollY
           ELSE LET dx == IF shiftKey THEN deltaY ELSE deltaX
                    dy == IF shiftKey THEN 0 ELSE deltaY
                    r == scrollBy(viewStart, viewEnd, dx, CanvasWidth)
                IN  /\ scrollExact(viewStart, viewEnd, dx, CanvasWidth)
                    /\ viewStart' = IF dx # 0 THEN r.viewStart ELSE viewStart
                    /\ viewEnd' = IF dx # 0 THEN r.viewEnd ELSE viewEnd
                    /\ globalScrollY' = IF dy # 0
                                        THEN scrollGlobal(lanes, globalScrollY, dy, CanvasHeight - minimapHeight)
                                        ELSE globalScrollY
        /\ UNCHANGED <<lanes, profileLoaded, drag, timeSelection, animationId, raf>>
        /\ UNCHANGED <<storeVars, hostVars, hitVars, loadVars, searchVars, renderVars, svgVars>>

\* onMouseDown(e)
OnMouseDown ==
    \E x \in DownXs, y \in DownYs :
        LET localY == y - minimapHeight
            handleIdx == isOnDragHandle(lanes, globalScrollY, localY)
            laneIdx == laneAtY(lanes, globalScrollY, localY)
            headerTop == laneY(lanes, laneIdx)
            isOnHeader == localY >= headerTop /\ localY < headerTop + HEADER_HEIGHT
        IN  /\ steps < MaxEvents
            /\ steps' = steps + 1
            /\ lastOp' = [op |-> "mouseDown"]
            /\ IF isInMinimap(y)
               THEN /\ drag' = IF isOnMinimapViewport(x, y)
                               THEN [kind |-> "minimap-slide", startFrac |-> xToFrac(x)]
                               ELSE [kind |-> "minimap-select", anchorFrac |-> xToFrac(x)]
                    /\ UNCHANGED timeSelection
               ELSE IF isInTimeAxis(y)
               THEN /\ Exact(viewEnd - viewStart, x, CanvasWidth)
                    /\ drag' = [kind |-> "time-select", anchorFrac |-> xToViewFrac(x)]
                    /\ timeSelection' = [start |-> xToViewFrac(x), end |-> xToViewFrac(x)]
               ELSE IF handleIdx >= 0
               THEN /\ drag' = [kind |-> "lane-resize", laneIndex |-> handleIdx, startY |-> y,
                                startHeight |-> visibleLanes(lanes)[handleIdx + 1].height]
                    /\ UNCHANGED timeSelection
               ELSE IF laneIdx >= 0 /\ isOnHeader /\ x < 24
               THEN /\ drag' = [kind |-> "lane-reorder", visibleIndex |-> laneIdx,
                                startY |-> y, currentY |-> y]
                    /\ UNCHANGED timeSelection
               ELSE /\ drag' = [kind |-> "canvas-pan", lastX |-> x, lastY |-> y, laneIndex |-> laneIdx]
                    /\ UNCHANGED timeSelection
            /\ UNCHANGED <<viewStart, viewEnd, globalScrollY, lanes, profileLoaded, animationId, raf>>
            /\ UNCHANGED <<storeVars, hostVars, hitVars, loadVars, searchVars, renderVars, svgVars>>

\* The start of the window after a slide that is not held back at the
\* right end of the timeline.
slideStartNoRightLimit(vs, ve, delta) == Max(0, vs + delta)

\* Math.max(0, Math.min(1 - viewSpan, laneManager.viewStart + delta))
slideStart(vs, ve, delta) == Max(0, Min(One - (ve - vs), vs + delta))

\* lane.height = value for the visible lane at 0-based index vi
SetVisibleLaneHeight(ls, vi, value) ==
    LET vis == visibleLanes(ls)
    IN  [k \in 1..Len(ls) |->
            IF ls[k].id = vis[vi + 1].id THEN [ls[k] EXCEPT !.height = value] ELSE ls[k]]

\* onMouseMove(e)
OnMouseMove ==
    \E x \in MoveXs, y \in MoveYs :
        /\ steps < MaxEvents
        /\ steps' = steps + 1
        /\ lastOp' = [op |-> IF drag.kind = "none" THEN "mouseMove" ELSE drag.kind]
        /\ \/ /\ drag.kind = "minimap-slide"
              /\ LET frac == xToFrac(x)
                     delta == frac - drag.startFrac
                     viewSpan == viewEnd - viewStart
                     s1 == slideStart(viewStart, viewEnd, delta)
                 IN  /\ viewStart' = s1
                     /\ viewEnd' = s1 + viewSpan
                     /\ drag' = [drag EXCEPT !.startFrac = frac]
              /\ UNCHANGED <<globalScrollY, lanes, timeSelection>>
           \/ /\ drag.kind = "minimap-select"
              /\ LET frac == xToFrac(x)
                     lo == Min(drag.anchorFrac, frac)
                     hi == Max(drag.anchorFrac, frac)
                 IN  IF hi - lo > ClickSpan
                     THEN viewStart' = lo /\ viewEnd' = hi
                     ELSE UNCHANGED <<viewStart, viewEnd>>
              /\ UNCHANGED <<globalScrollY, lanes, timeSelection, drag>>
           \/ /\ drag.kind = "time-select"
              /\ Exact(viewEnd - viewStart, x, CanvasWidth)
              /\ LET frac == xToViewFrac(x)
                 IN  timeSelection' = [start |-> Min(drag.anchorFrac, frac),
                                       end |-> Max(drag.anchorFrac, frac)]
              /\ UNCHANGED <<viewStart, viewEnd, globalScrollY, lanes, drag>>
           \/ /\ drag.kind = "lane-resize"
              /\ IF drag.laneIndex < Len(visibleLanes(lanes))
                 THEN lanes' = SetVisibleLaneHeight(lanes, drag.laneIndex,
                                                    Max(60, drag.startHeight + (y - drag.startY)))
                 ELSE UNCHANGED lanes
              /\ UNCHANGED <<viewStart, viewEnd, globalScrollY, timeSelection, drag>>
           \/ /\ drag.kind = "lane-reorder"
              /\ drag' = [drag EXCEPT !.currentY = y]
              /\ UNCHANGED <<viewStart, viewEnd, globalScrollY, lanes, timeSelection>>
           \/ /\ drag.kind = "canvas-pan"
              /\ LET dx == drag.lastX - x
                     dy == y - drag.lastY
                     r == scrollBy(viewStart, viewEnd, dx, CanvasWidth)
                 IN  /\ scrollExact(viewStart, viewEnd, dx, CanvasWidth)
                     /\ viewStart' = r.viewStart
                     /\ viewEnd' = r.viewEnd
                     /\ globalScrollY' = scrollGlobal(lanes, globalScrollY, -dy, CanvasHeight - minimapHeight)
                     /\ drag' = [drag EXCEPT !.lastX = x, !.lastY = y]
              /\ UNCHANGED <<lanes, timeSelection>>
           \/ /\ drag.kind = "none"
              /\ UNCHANGED <<viewStart, viewEnd, globalScrollY, lanes, timeSelection, drag>>
        /\ UNCHANGED <<profileLoaded, animationId, raf>>
        /\ UNCHANGED <<storeVars, hostVars, hitVars, loadVars, searchVars, renderVars, svgVars>>

\* onMouseUp(e)
OnMouseUp ==
    \E x \in MoveXs, y \in MoveYs :
        /\ steps < MaxEvents
        /\ steps' = steps + 1
        /\ lastOp' = [op |-> "mouseUp", was |-> drag.kind]
        /\ drag' = [kind |-> "none"]
        /\ \/ /\ drag.kind = "minimap-select"
              /\ LET frac == xToFrac(x)
                     viewSpan == viewEnd - viewStart
                     s1 == Max(0, Min(One - viewSpan, frac - viewSpan \div 2))
                 IN  IF Abs(frac - drag.anchorFrac) < ClickSpan
                     THEN /\ viewSpan % 2 = 0
                          /\ viewStart' = s1
                          /\ viewEnd' = s1 + viewSpan
                     ELSE UNCHANGED <<viewStart, viewEnd>>
              /\ UNCHANGED <<lanes, timeSelection>>
           \/ /\ drag.kind = "time-select"
              /\ timeSelection' =
                     IF timeSelection # Null /\ timeSelection.end - timeSelection.start < TinySelection
                     THEN Null
                     ELSE timeSelection
              /\ UNCHANGED <<viewStart, viewEnd, lanes>>
           \/ /\ drag.kind = "lane-reorder"
              /\ LET targetIdx == laneAtY(lanes, globalScrollY, y - minimapHeight)
                 IN  lanes' = IF targetIdx >= 0 /\ targetIdx # drag.visibleIndex
                              THEN moveLane(lanes, visibleToFullIndex(lanes, drag.visibleIndex),
                                            visibleToFullIndex(lanes, targetIdx))
                              ELSE lanes
              /\ UNCHANGED <<viewStart, viewEnd, timeSelection>>
           \/ /\ drag.kind \in {"none", "minimap-slide", "lane-resize", "canvas-pan"}
              /\ UNCHANGED <<viewStart, viewEnd, lanes, timeSelection>>
        /\ UNCHANGED <<globalScrollY, profileLoaded, animationId, raf>>
        /\ UNCHANGED <<storeVars, hostVars, hitVars, loadVars, searchVars, renderVars, svgVars>>

\* lane.scrollY = 0 for every visible lane
ResetLaneScroll(ls) ==
    [k \in 1..Len(ls) |-> IF ls[k].visible THEN [ls[k] EXCEPT !.scrollY = 0] ELSE ls[k]]

\* onKeyDown(e) for the keys of its switch; typing says that the focus is
\* in an INPUT or TEXTAREA.
OnKeyDown ==
    \E key \in Keys, typing \in BOOLEAN :
        /\ steps < MaxEvents
        /\ steps' = steps + 1
        /\ lastOp' = [op |-> "key", key |-> key, hadAnimation |-> animationId # NoId]
        /\ \/ /\ key \in {"ArrowLeft", "ArrowRight"}
              /\ LET dx == IF key = "ArrowLeft" THEN -40 ELSE 40
                     r == scrollBy(viewStart, viewEnd, dx, CanvasWidth)
                 IN  /\ scrollExact(viewStart, viewEnd, dx, CanvasWidth)
                     /\ viewStart' = r.viewStart
                     /\ viewEnd' = r.viewEnd
              /\ UNCHANGED <<globalScrollY, lanes, timeSelection, animationId, raf>>
           \/ /\ key \in {"ArrowUp", "ArrowDown"}
              /\ globalScrollY' = scrollGlobal(lanes, globalScrollY,
                                               IF key = "ArrowUp" THEN -40 ELSE 40,
                                               CanvasHeight - minimapHeight)
              /\ UNCHANGED <<viewStart, viewEnd, lanes, timeSelection, animationId, raf>>
           \/ /\ key \in {"+", "-"}
              /\ LET f == IF key = "+" THEN [n |-> 6, d |-> 5] ELSE [n |-> 4, d |-> 5]
                     r == zoomAt(viewStart, viewEnd, f, CanvasWidth \div 2, CanvasWidth)
                 IN  /\ zoomExact(viewStart, viewEnd, f, CanvasWidth \div 2, CanvasWidth)
                     /\ viewStart' = r.viewStart
                     /\ viewEnd' = r.viewEnd
              /\ UNCHANGED <<globalScrollY, lanes, timeSelection, animationId, raf>>
           \/ /\ key = "Home"
              /\ HasFreshId(raf, {animationId})
              /\ LET a == animateViewTo(raf, animationId, 0, One)
                 IN  raf' = a.raf /\ animationId' = a.animationId
              /\ globalScrollY' = 0
              /\ lanes' = ResetLaneScroll(lanes)
              /\ UNCHANGED <<viewStart, viewEnd, timeSelection>>
           \/ /\ key = "0" \/ (key = "f" /\ ~typing)
              /\ HasFreshId(raf, {animationId})
              /\ LET a == animateViewTo(raf, animationId, 0, One)
                 IN  raf' = a.raf /\ animationId' = a.animationId
              /\ UNCHANGED <<viewStart, viewEnd, globalScrollY, lanes, timeSelection>>
           \/ /\ key = "z" /\ ~typing /\ timeSelection # Null
              /\ HasFreshId(raf, {animationId})
              /\ (timeSelection.end - timeSelection.start) % 20 = 0
              /\ LET padding == (timeSelection.end - timeSelection.start) \div 20
                     a == animateViewTo(raf, animationId,
                                        Max(0, timeSelection.start - padding),
                                        Min(One, timeSelection.end + padding))
                 IN  raf' = a.raf /\ animationId' = a.animationId
              /\ UNCHANGED <<viewStart, viewEnd, globalScrollY, lanes, timeSelection>>
           \/ /\ key = "Escape"
              /\ timeSelection' = Null
              /\ UNCHANGED <<viewStart, viewEnd, globalScrollY, lanes, animationId, raf>>
           \/ /\ (key = "f" /\ typing) \/ (key = "z" /\ (typing \/ timeSelection = Null))
              /\ UNCHANGED <<viewStart, viewEnd, globalScrollY, lanes, timeSelection, animationId, raf>>
        /\ UNCHANGED <<profileLoaded, drag>>
        /\ UNCHANGED <<storeVars, hostVars, hitVars, loadVars, searchVars, renderVars, svgVars>>

\* The viewer before and after a profile was loaded.
InitView ==
    /\ viewStart = 0
    /\ viewEnd = One
    /\ globalScrollY = 0
    /\ profileLoaded \in BOOLEAN
    /\ lanes = IF profileLoaded THEN LoadedLanes ELSE <<>>
    /\ InitInteraction
    /\ InitStore
    /\ InitCanvas
    /\ InitLoad
    /\ InitSearch
    /\ InitRender
    /\ steps = 0
    /\ lastOp = NoOp

NextView ==
    \/ OnWheel
    \/ OnMouseDown
    \/ OnMouseMove
    \/ OnMouseUp
    \/ OnKeyDown
    \/ AnimStep

SpecView == InitView /\ [][NextView]_vars

\* ------------------------------------------------------------------------
\* animateViewTo in floating point.  viewStart, viewEnd and the targets are
\* JavaScript numbers: binary floating point, every operation rounded to
\* nearest, ties to even.  Here a number keeps MantissaBits significant
\* bits instead of 53 and is counted in units of the smallest step, with
\* FloatOne units for 1.
\* ------------------------------------------------------------------------

\* Significant bits of a number.
MantissaBits == 3

\* Largest number of animateViewTo calls in one run.
MaxAnimations == 2

\* 1.0
FloatOne == 2 ^ (MantissaBits + 2)

RECURSIVE ulpFrom(_, _, _)
\* The spacing of the numbers around a / d: the smallest power of two u
\* from u on with a / d < 2^MantissaBits * u.
ulpFrom(u, a, d) == IF a < (2 ^ MantissaBits) * u * d THEN u ELSE ulpFrom(2 * u, a, d)

\* The number nearest to n / d, ties to even.
fl(n, d) ==
    LET a == Abs(n)
        u == ulpFrom(1, a, d)
        f == a \div (d * u)
        rem == a % (d * u)
        r == IF 2 * rem > d * u THEN f + 1
             ELSE IF 2 * rem < d * u THEN f
             ELSE IF f % 2 = 0 THEN f ELSE f + 1
    IN  IF n >= 0 THEN r * u ELSE 0 - r * u

\* The numbers in [0, 1].
Floats == {v \in 0..FloatOne : fl(v, 1) = v}

\* from + (target - from) * ease, with ease = 1 - (1 - t) ** 3 at
\* t = e / AnimTicks: a subtraction, a product and a sum, each rounded.
stepValue(from, target, e) ==
    fl(from + fl(fl(target - from, 1) * EaseNum(e), EaseDen), 1)

\* onKeyDown 'z' with a time selection: animateViewTo(targetStart,
\* targetEnd) towards the padded selection.
AnimateViewToFloat ==
    \E targetStart \in Floats, targetEnd \in {FloatOne \div 2, FloatOne} :
        /\ targetStart < targetEnd
        /\ steps < MaxAnimations
        /\ steps' = steps + 1
        /\ HasFreshId(raf, {animationId})
        /\ LET a == animateViewTo(raf, animationId, targetStart, targetEnd)
           IN  raf' = a.raf /\ animationId' = a.animationId
        /\ lastOp' = [op |-> "animateViewTo"]
        /\ UNCHANGED <<viewStart, viewEnd, globalScrollY, lanes, profileLoaded, drag,
                       timeSelection>>
        /\ UNCHANGED <<storeVars, hostVars, hitVars, loadVars, searchVars, renderVars, svgVars>>

\* The browser runs a pending frame of animateViewTo: step(now).
AnimStepFloat ==
    \E fr \in raf, dt \in 1..AnimTicks :
        LET e == Min(AnimTicks, fr.elapsed + dt)
        IN  /\ fr.cb = "step"
            /\ viewStart' = stepValue(fr.fromStart, fr.targetStart, e)
            /\ viewEnd' = stepValue(fr.fromEnd, fr.targetEnd, e)
            /\ IF e < AnimTicks
               THEN /\ HasFreshId(raf \ {fr}, {})
                    /\ LET id == FreshId(raf \ {fr}, {})
                       IN  /\ raf' = (raf \ {fr}) \cup {[fr EXCEPT !.id = id, !.elapsed = e]}
                           /\ animationId' = id
               ELSE /\ raf' = raf \ {fr}
                    /\ animationId' = NoId
            /\ lastOp' = [op |-> IF e < AnimTicks THEN "animStep" ELSE "animEnd",
                          targetStart |-> fr.targetStart, targetEnd |-> fr.targetEnd]
            /\ UNCHANGED <<globalScrollY, lanes, profileLoaded, drag, timeSelection, steps>>
            /\ UNCHANGED <<storeVars, hostVars, hitVars, loadVars, searchVars, renderVars, svgVars>>

\* A loaded profile, the whole timeline in view.
InitFloat ==
    /\ viewStart = 0
    /\ viewEnd = FloatOne
    /\ globalScrollY = 0
    /\ profileLoaded = TRUE
    /\ lanes = LoadedLanes
    /\ InitInteraction
    /\ InitStore
    /\ InitCanvas
    /\ InitLoad
    /\ InitSearch
    /\ InitRender
    /\ steps = 0
    /\ lastOp = NoOp

NextFloat ==
    \/ AnimateViewToFloat
    \/ AnimStepFloat

SpecFloat == InitFloat /\ [][NextFloat]_vars

\* The browser keeps delivering animation frames.
SpecFloatFair == SpecFloat /\ WF_vars(AnimStepFloat)

\* ------------------------------------------------------------------------
\* WASD navigation.  Velocities are whole numbers of a small unit and
\* frames come at a steady rate (dt is the same in every tick): a tick adds
\* the acceleration of the held keys, halves the velocities (the friction
\* factor Math.exp(-WASD_FRICTION * dt) is below 1), snaps small ones to 0
\* and applies what is left to the window, rounded to the grid.
\* ------------------------------------------------------------------------

\* Largest number of key presses and Shift changes in one run.
MaxKeyEvents == 2

\* The four keys, named by the letter they give without Shift.
WasdKeys == {"w", "a", "s", "d"}

\* e.key of the key k with Shift up or down.
eKey(k, shift) ==
    IF ~shift THEN k
    ELSE CASE k = "w" -> "W" [] k = "a" -> "A" [] k = "s" -> "S" [] OTHER -> "D"

\* WASD_PAN_ACCEL * dt for a window that spans the whole timeline, and
\* WASD_ZOOM_ACCEL * dt, in velocity units.
PanAccelStep == 16

ZoomAccelStep == 4

\* 0.0001 and 0.001 in velocity units.
PanStop == 4

ZoomStop == 1

\* The fraction of the timeline a pan velocity of one unit moves the window
\* in a tick.
PanUnit == One \div 100

\* v * Math.exp(-WASD_FRICTION * dt)
friction(v) == IF v >= 0 THEN v \div 2 ELSE 0 - ((0 - v) \div 2)

\* if (Math.abs(panVelocity) < 0.0001 * viewSpan) panVelocity = 0
snapPan(v, viewSpan) == IF Abs(v) * One < PanStop * viewSpan THEN 0 ELSE v

\* if (Math.abs(zoomVelocity) < 0.001) zoomVelocity = 0
snapZoom(v) == IF Abs(v) < ZoomStop THEN 0 ELSE v

\* Math.pow(2, zoomVelocity * dt): above 1 exactly when the velocity is
\* positive.
zoomFactor(v) == IF v > 0 THEN [n |-> 2, d |-> 1] ELSE [n |-> 1, d |-> 2]

\* wasdTick(now): wasdState, wasdAnimId and the window it leaves.
wasdTick(w, vs, ve) ==
    IF ~w.active /\ Abs(w.panVelocity) < PanStop /\ Abs(w.zoomVelocity) < ZoomStop
      THEN [wasd |-> [w EXCEPT !.animId = FALSE], viewStart |-> vs, viewEnd |-> ve]
      ELSE
        LET has(k) == k \in w.keys \/ eKey(k, TRUE) \in w.keys
            panInput == (IF has("a") THEN -1 ELSE 0) + (IF has("d") THEN 1 ELSE 0)
            zoomInput == (IF has("w") THEN 1 ELSE 0) + (IF has("s") THEN -1 ELSE 0)
            viewSpan == ve - vs
            pan == snapPan(friction(w.panVelocity + panInput * MulDiv(PanAccelStep, viewSpan, One)),
                           viewSpan)
            zoom == snapZoom(friction(w.zoomVelocity + zoomInput * ZoomAccelStep))
            s1 == IF pan # 0 THEN Max(0, Min(One - viewSpan, vs + pan * PanUnit)) ELSE vs
            e1 == IF pan # 0 THEN s1 + viewSpan ELSE ve
            z == zoomAt(s1, e1, zoomFactor(zoom), CanvasWidth \div 2, CanvasWidth)
        IN  [wasd |-> [w EXCEPT !.panVelocity = pan, !.zoomVelocity = zoom, !.animId = TRUE],
             viewStart |-> IF zoom # 0 THEN z.viewStart ELSE s1,
             viewEnd |-> IF zoom # 0 THEN z.viewEnd ELSE e1]

\* onKeyDown(e) for one of the keys W, A, S, D going down, with no Ctrl,
\* Meta or Alt and the focus outside a text field.
OnWasdKeyDown ==
    \E k \in WasdKeys \ keyboard.down :
        /\ steps < MaxKeyEvents
        /\ steps' = steps + 1
        /\ keyboard' = [keyboard EXCEPT !.down = @ \cup {k}]
        /\ wasd' = [wasd EXCEPT !.keys = @ \cup {eKey(k, keyboard.shift)},
                                !.active = TRUE,
                                !.animId = TRUE]
        /\ lastOp' = [op |-> "keydown", key |-> eKey(k, keyboard.shift)]
        /\ UNCHANGED <<laneVars, interactionVars, storeVars, hitVars, loadVars, searchVars, renderVars,
                       svgVars, providerError>>

\* onKeyUp(e) for one of the keys W, A, S, D going up.
OnKeyUp ==
    \E k \in keyboard.down :
        LET keys == wasd.keys \ {eKey(k, keyboard.shift)}
        IN  /\ keyboard' = [keyboard EXCEPT !.down = @ \ {k}]
            /\ wasd' = [wasd EXCEPT !.keys = keys,
                                    !.active = IF keys = {} THEN FALSE ELSE @]
            /\ lastOp' = [op |-> "keyup", key |-> eKey(k, keyboard.shift)]
            /\ UNCHANGED <<laneVars, interactionVars, storeVars, hitVars, loadVars, searchVars,
                           renderVars, svgVars, providerError, steps>>

\* Shift goes down or up: onKeyDown and onKeyUp have no case for it.
OnShift ==
    /\ steps < MaxKeyEvents
    /\ steps' = steps + 1
    /\ keyboard' = [keyboard EXCEPT !.shift = ~@]
    /\ lastOp' = [op |-> "shift"]
    /\ UNCHANGED <<laneVars, interactionVars, storeVars, hitVars, loadVars, searchVars, renderVars,
                   svgVars, wasd, providerError>>

\* The browser runs the frame wasdAnimId names: wasdTick(now).
WasdTick ==
    /\ wasd.animId
    /\ LET r == wasdTick(wasd, viewStart, viewEnd)
       IN  /\ wasd' = r.wasd
           /\ viewStart' = r.viewStart
           /\ viewEnd' = r.viewEnd
    /\ lastOp' = [op |-> "wasdTick"]
    /\ UNCHANGED <<globalScrollY, lanes, interactionVars, storeVars, hitVars, loadVars, searchVars,
                   renderVars, svgVars, keyboard, providerError, steps>>

\* Windows a mouse gesture can start from: the whole timeline, its first
\* fifth, and its second quarter.
DragViewports == { [start |-> 0, end |-> One], [start |-> 0, end |-> One \div 5],
                   [start |-> One \div 4, end |-> One \div 2] }

\* A loaded profile shown through one of the windows of DragViewports.
InitDrag ==
    /\ \E vp \in DragViewports : viewStart = vp.start /\ viewEnd = vp.end
    /\ globalScrollY = 0
    /\ profileLoaded = TRUE
    /\ lanes = LoadedLanes
    /\ InitInteraction
    /\ InitStore
    /\ InitCanvas
    /\ InitLoad
    /\ InitSearch
    /\ InitRender
    /\ steps = 0
    /\ lastOp = NoOp

NextDrag ==
    \/ OnMouseDown
    \/ OnMouseMove
    \/ OnMouseUp

SpecDrag == InitDrag /\ [][NextDrag]_vars

NextWasd ==
    \/ OnWasdKeyDown
    \/ OnKeyUp
    \/ OnShift
    \/ WasdTick

SpecWasd == InitDrag /\ [][NextWasd]_vars

\* The browser runs every animation frame it was asked for.
SpecWasdFair == SpecWasd /\ WF_vars(WasdTick)

\* ------------------------------------------------------------------------
\* FlameCatStore (store.ts) and the useFlameGraph controller.  JavaScript
\* runs one call at a time, but a call made from inside a callback runs
\* nested in its caller: stack holds the calls in progress inside the store,
\* innermost last.  The viewer behind WasmExports behaves as the one the
\* store's tests drive it with: a command that changes the state invokes
\* the onStateChange callback before it returns.
\* ------------------------------------------------------------------------

\* Largest number of commands submitted to the store in one run.
MaxCmds == 3

\* Largest number of commands submitted to the controller in one run.
MaxCtlCmds == 2

\* Subscribers of the store.
Listeners == {"a", "b"}

\* Commands a caller can pass to exec: (w) => w.setTheme(mode),
\* (w) => w.setSearch(query), (w) => w.loadProfile(bytes).
CmdOps == { [op |-> "setTheme", arg |-> "light"],
            [op |-> "setSearch", arg |-> "q"],
            [op |-> "loadProfile", arg |-> "bytes"] }

\* Commands of the controller facade.
CtlOps == {"setTheme", "resetZoom"}

viewVars == <<viewStart, viewEnd, globalScrollY, lanes, profileLoaded, drag, timeSelection,
              animationId, raf, layout, renderViewCalls, hitResult, spans, hitRegions,
              hoveredId, session, profileDuration, loads, searchQuery, selectedSpanName,
              unsearched, webgpu, canvas2d, nesting, buffers, svg, groups, wasd, keyboard,
              providerError, steps, lastOp>>

\* The viewer state a command leaves.
\* state.lanes[i] of the viewer is defined.
HasLane(ls, i) == ~i.nan /\ i.v >= 0 /\ i.v < Len(ls)

\* const [lane] = lanes.splice(from, 1); lanes.splice(to, 0, lane), for
\* 0-based positions inside the list.
spliceMove(ls, from, to) ==
    LET without == [k \in 1..(Len(ls) - 1) |-> IF k < from + 1 THEN ls[k] ELSE ls[k + 1]]
    IN  [k \in 1..Len(ls) |->
            IF k < to + 1 THEN without[k]
            ELSE IF k = to + 1 THEN ls[from + 1]
            ELSE without[k - 1]]

\* The viewer state a command leaves.  The hooks pass reorderLanes no
\* negative position.
ApplyCommand(ws, c) ==
    CASE c.op = "setTheme" -> [ws EXCEPT !.theme = c.arg]
      [] c.op = "setSearch" -> [ws EXCEPT !.search = c.arg]
      [] c.op = "setViewport" -> [ws EXCEPT !.viewport = [start |-> c.arg.s, end |-> c.arg.e]]
      [] c.op = "setLaneVisibility" ->
            IF HasLane(ws.lanes, c.arg.index)
              THEN [ws EXCEPT !.lanes[c.arg.index.v + 1].visible = c.arg.visible]
              ELSE ws
      [] c.op = "setLaneHeight" ->
            IF HasLane(ws.lanes, c.arg.index)
              THEN [ws EXCEPT !.lanes[c.arg.index.v + 1].height = c.arg.height]
              ELSE ws
      [] c.op = "reorderLanes" ->
            IF HasLane(ws.lanes, c.arg.from) /\ HasLane(ws.lanes, c.arg.to)
              THEN [ws EXCEPT !.lanes = spliceMove(@, c.arg.from.v, c.arg.to.v)]
              ELSE ws
      [] OTHER -> ws

\* The command invokes the onStateChange callback.
CallsBack(c) ==
    c.op \in {"setTheme", "setSearch", "setViewport", "setLaneVisibility", "setLaneHeight",
              "reorderLanes"}

Top == stack[Len(stack)]

Pop == SubSeq(stack, 1, Len(stack) - 1)

ReplaceTop(fr) == [stack EXCEPT ![Len(stack)] = fr]

CmdFrame(c) == [fn |-> "cmd", c |-> c, pc |-> "call"]

\* this.listeners.add(cb)
AddListener(ls, l) == IF \E k \in 1..Len(ls) : ls[k] = l THEN ls ELSE Append(ls, l)

\* this.listeners.delete(cb)
DeleteListener(ls, l) == SelectSeq(ls, LAMBDA x : x # l)

\* notify() that calls the first subscriber only.
notifyFrameFirstOnly(ls) ==
    [fn |-> "notify", todo |-> SubSeq(ls, 1, Min(1, Len(ls))), called |-> <<>>, dropped |-> {}]

\* notify() is entered: the loop over this.listeners has every subscriber
\* ahead of it and has called none.
notifyFrame(ls) == [fn |-> "notify", todo |-> ls, called |-> <<>>, dropped |-> {}]

\* A loop over this.listeners that goes on with the subscribers it
\* started with.
dropFromFramesNever(stk, l) == stk

\* this.listeners.delete(l) while the loops of stk are going on: a Set
\* iterator does not visit an entry deleted ahead of it.
dropFromFrames(stk, l) ==
    [i \in 1..Len(stk) |->
        IF stk[i].fn = "notify"
          THEN [stk[i] EXCEPT !.todo = DeleteListener(@, l),
                              !.dropped = IF \E k \in 1..Len(stk[i].todo) : stk[i].todo[k] = l
                                            THEN @ \cup {l} ELSE @]
          ELSE stk[i]]

\* this.listeners.add(l), for an l not in the Set, while the loops of stk
\* are going on: a Set iterator visits an entry added behind it.
addToFrames(stk, l) ==
    [i \in 1..Len(stk) |->
        IF stk[i].fn = "notify" THEN [stk[i] EXCEPT !.todo = Append(@, l)] ELSE stk[i]]

\* exec(fn) called with the calls in stk in progress: the stack and the
\* pending queue it leaves.
exec(stk, c) ==
    IF wasm
      THEN [stack |-> Append(stk, CmdFrame(c)), pending |-> pending]
      ELSE [stack |-> stk, pending |-> Append(pending, c)]

\* The flush loop taking the pending commands last first.
FlushNextReversed(p, i) == p[Len(p) + 1 - i]

\* for (const fn of pending): the command the i-th iteration runs.
FlushNext(p, i) == p[i]

\* subscribe(cb) from the application.
Subscribe ==
    \E l \in Listeners :
        /\ stack = <<>>
        /\ listeners' = AddListener(listeners, l)
        /\ listeners' # listeners
        /\ UNCHANGED <<wasm, pending, status, error, snapshot, wasmState, stack, nextCmd, log,
                       queuedAtAttach, ctl>>
        /\ UNCHANGED viewVars

\* The function subscribe returned, called from the application.
Unsubscribe ==
    \E l \in Listeners :
        /\ stack = <<>>
        /\ listeners' = DeleteListener(listeners, l)
        /\ listeners' # listeners
        /\ UNCHANGED <<wasm, pending, status, error, snapshot, wasmState, stack, nextCmd, log,
                       queuedAtAttach, ctl>>
        /\ UNCHANGED viewVars

\* exec(fn) called from the application (a hook's action).
StoreExec ==
    \E o \in CmdOps :
        /\ stack = <<>>
        /\ nextCmd <= MaxCmds
        /\ LET r == exec(stack, [n |-> nextCmd, op |-> o.op, arg |-> o.arg])
           IN  /\ stack' = r.stack
               /\ pending' = r.pending
        /\ nextCmd' = nextCmd + 1
        /\ UNCHANGED <<wasm, status, error, listeners, snapshot, wasmState, log, queuedAtAttach, ctl>>
        /\ UNCHANGED viewVars

\* attach(wasm) that leaves _error as it is.
AttachKeepsError ==
    /\ stack = <<>>
    /\ ~wasm
    /\ wasm' = TRUE
    /\ status' = "ready"
    /\ queuedAtAttach' = pending
    /\ stack' = <<[fn |-> "attach", i |-> 1]>>
    /\ UNCHANGED <<error, pending, listeners, snapshot, wasmState, nextCmd, log, ctl>>
    /\ UNCHANGED viewVars

\* attach(wasm) up to the flush loop.
Attach ==
    /\ stack = <<>>
    /\ ~wasm
    /\ wasm' = TRUE
    /\ status' = "ready"
    /\ error' = Null
    /\ queuedAtAttach' = pending
    /\ stack' = <<[fn |-> "attach", i |-> 1]>>
    /\ UNCHANGED <<pending, listeners, snapshot, wasmState, nextCmd, log, ctl>>
    /\ UNCHANGED viewVars

\* One iteration of attach's flush loop, or the end of the loop:
\* this.pending.length = 0; this.refresh().
AttachFlush ==
    /\ stack # <<>>
    /\ Top.fn = "attach"
    /\ IF Top.i <= Len(pending)
         THEN /\ stack' = Append(ReplaceTop([Top EXCEPT !.i = Top.i + 1]),
                                 CmdFrame(FlushNext(pending, Top.i)))
              /\ UNCHANGED pending
         ELSE /\ pending' = <<>>
              /\ stack' = ReplaceTop([fn |-> "refresh"])
    /\ UNCHANGED <<wasm, status, error, listeners, snapshot, wasmState, nextCmd, log,
                   queuedAtAttach, ctl>>
    /\ UNCHANGED viewVars

\* fn(this.wasm): the command runs in the viewer, which calls the
\* onStateChange callback (this.refresh()) before it returns.
RunCommand ==
    /\ stack # <<>>
    /\ Top.fn = "cmd"
    /\ Top.pc = "call"
    /\ log' = Append(log, [ev |-> "start", n |-> Top.c.n])
    /\ wasmState' = ApplyCommand(wasmState, Top.c)
    /\ stack' = IF CallsBack(Top.c)
                  THEN Append(ReplaceTop([Top EXCEPT !.pc = "return"]), [fn |-> "refresh"])
                  ELSE ReplaceTop([Top EXCEPT !.pc = "return"])
    /\ UNCHANGED <<wasm, pending, status, error, listeners, snapshot, nextCmd, queuedAtAttach, ctl>>
    /\ UNCHANGED viewVars

\* fn(this.wasm) returns.
ReturnCommand ==
    /\ stack # <<>>
    /\ Top.fn = "cmd"
    /\ Top.pc = "return"
    /\ log' = Append(log, [ev |-> "end", n |-> Top.c.n])
    /\ stack' = Pop
    /\ UNCHANGED <<wasm, pending, status, error, listeners, snapshot, wasmState, nextCmd,
                   queuedAtAttach, ctl>>
    /\ UNCHANGED viewVars

\* The snapshot refresh() stores: the state JSON.parse(this.wasm.getState())
\* gives, with the profile and the lanes of the previous snapshot put back
\* in when the fields refresh compares are the same.
refreshSnapshot(prev, ws) ==
    LET sameProfile == /\ prev.profile # Null
                       /\ ws.profile # Null
                       /\ prev.profile.duration_us = ws.profile.duration_us
                       /\ prev.profile.span_count = ws.profile.span_count
        sameLanes == /\ Len(prev.lanes) = Len(ws.lanes)
                     /\ \A i \in 1..Len(prev.lanes) :
                            /\ prev.lanes[i].name = ws.lanes[i].name
                            /\ prev.lanes[i].visible = ws.lanes[i].visible
                            /\ prev.lanes[i].height = ws.lanes[i].height
    IN  [theme |-> ws.theme, search |-> ws.search,
         lanes |-> IF sameLanes THEN prev.lanes ELSE ws.lanes,
         viewport |-> ws.viewport,
         profile |-> IF sameProfile THEN prev.profile ELSE ws.profile]

\* refresh(): take the viewer's state as the snapshot, then notify().
Refresh ==
    /\ stack # <<>>
    /\ Top.fn = "refresh"
    /\ snapshot' = refreshSnapshot(snapshot, wasmState)
    /\ stack' = ReplaceTop(notifyFrame(listeners))
    /\ UNCHANGED <<wasm, pending, status, error, listeners, wasmState, nextCmd, log,
                   queuedAtAttach, ctl>>
    /\ UNCHANGED viewVars

\* notify(): the loop calls the next subscriber, or ends.  A subscriber
\* returns at once or submits a command with exec before it returns.
Notify ==
    /\ stack # <<>>
    /\ Top.fn = "notify"
    /\ IF Top.todo = <<>>
         THEN /\ stack' = Pop
              /\ UNCHANGED <<pending, nextCmd>>
         ELSE LET rest == ReplaceTop([Top EXCEPT !.todo = Tail(Top.todo),
                                                 !.called = Append(@, Head(Top.todo))])
              IN  \/ /\ stack' = rest
                     /\ UNCHANGED <<pending, nextCmd>>
                  \/ \E o \in CmdOps :
                        /\ nextCmd <= MaxCmds
                        /\ LET r == exec(rest, [n |-> nextCmd, op |-> o.op, arg |-> o.arg])
                           IN  /\ stack' = r.stack
                               /\ pending' = r.pending
                        /\ nextCmd' = nextCmd + 1
    /\ UNCHANGED <<wasm, status, error, listeners, snapshot, wasmState, log, queuedAtAttach, ctl>>
    /\ UNCHANGED viewVars

\* notify(): the loop calls the next subscriber, which calls the
\* unsubscribe function of a subscriber (its own or another's) before it
\* returns.
NotifyUnsubscribe ==
    /\ stack # <<>>
    /\ Top.fn = "notify"
    /\ Top.todo # <<>>
    /\ \E l \in Listeners :
          /\ listeners' = DeleteListener(listeners, l)
          /\ listeners' # listeners
          /\ stack' = dropFromFrames(ReplaceTop([Top EXCEPT !.todo = Tail(Top.todo),
                                                           !.called = Append(@, Head(Top.todo))]),
                                     l)
    /\ UNCHANGED <<wasm, pending, status, error, snapshot, wasmState, nextCmd, log,
                   queuedAtAttach, ctl>>
    /\ UNCHANGED viewVars

\* notify(): the loop calls the next subscriber, which subscribes a new
\* listener before it returns.
NotifySubscribe ==
    /\ stack # <<>>
    /\ Top.fn = "notify"
    /\ Top.todo # <<>>
    /\ \E l \in Listeners :
          /\ listeners' = AddListener(listeners, l)
          /\ listeners' # listeners
          /\ stack' = addToFrames(ReplaceTop([Top EXCEPT !.todo = Tail(Top.todo),
                                                         !.called = Append(@, Head(Top.todo))]),
                                  l)
    /\ UNCHANGED <<wasm, pending, status, error, snapshot, wasmState, nextCmd, log,
                   queuedAtAttach, ctl>>
    /\ UNCHANGED viewVars

\* The message passed to fail, as the value of _error.
Message == [null |-> FALSE, text |-> "message"]

\* fail(message)
Fail ==
    /\ stack = <<>>
    /\ ~wasm
    /\ status = "loading"
    /\ status' = "error"
    /\ error' = Message
    /\ stack' = <<notifyFrame(listeners)>>
    /\ UNCHANGED <<wasm, pending, listeners, snapshot, wasmState, nextCmd, log, queuedAtAttach, ctl>>
    /\ UNCHANGED viewVars

\* A method of the controller facade: enqueue(fn).
CtlEnqueue ==
    \E o \in CtlOps :
        /\ Len(ctl.pending) + Len(ctl.log) < MaxCtlCmds
        /\ LET c == [n |-> Len(ctl.pending) + Len(ctl.log) + 1, op |-> o]
           IN  ctl' = IF ctl.wasm
                        THEN [ctl EXCEPT !.log = Append(ctl.log, c)]
                        ELSE [ctl EXCEPT !.pending = Append(ctl.pending, c)]
        /\ UNCHANGED <<wasm, pending, status, error, listeners, snapshot, wasmState, stack,
                       nextCmd, log, queuedAtAttach>>
        /\ UNCHANGED viewVars

\* _attach(w) of the controller: the commands of the controller's mock
\* viewer call nothing back, so the flush loop runs through.
CtlAttach ==
    /\ ~ctl.wasm
    /\ ctl' = [wasm |-> TRUE, isReady |-> TRUE, pending |-> <<>>,
               log |-> ctl.log \o [i \in 1..Len(ctl.pending) |-> FlushNext(ctl.pending, i)],
               queued |-> ctl.pending]
    /\ UNCHANGED <<wasm, pending, status, error, listeners, snapshot, wasmState, stack,
                   nextCmd, log, queuedAtAttach>>
    /\ UNCHANGED viewVars

NextStore ==
    \/ Subscribe
    \/ Unsubscribe
    \/ StoreExec
    \/ Attach
    \/ AttachFlush
    \/ RunCommand
    \/ ReturnCommand
    \/ Refresh
    \/ Notify
    \/ Fail
    \/ CtlEnqueue
    \/ CtlAttach

SpecStore == InitLane /\ [][NextStore]_vars

\* The store alone, with subscribers that subscribe and unsubscribe while
\* they are notified.
NextNotify ==
    \/ Subscribe
    \/ Unsubscribe
    \/ StoreExec
    \/ Attach
    \/ AttachFlush
    \/ RunCommand
    \/ ReturnCommand
    \/ Refresh
    \/ Notify
    \/ NotifyUnsubscribe
    \/ NotifySubscribe
    \/ Fail

SpecNotify == InitLane /\ [][NextNotify]_vars

\* ------------------------------------------------------------------------
\* FlameCatProvider: init() of the effect loads and initialises the WASM
\* module and then attaches it to the store, or catches what went wrong.
\* Hooks may subscribe and submit commands in the meantime.
\* ------------------------------------------------------------------------

\* init() fails before store.attach: catch (e) { setError(message) }.
ProviderInitFails ==
    /\ stack = <<>>
    /\ ~wasm
    /\ providerError = Null
    /\ providerError' = Message
    /\ lastOp' = [op |-> "initFailed"]
    /\ UNCHANGED <<laneVars, interactionVars, storeVars, hitVars, loadVars, searchVars, renderVars,
                   svgVars, wasd, keyboard, steps>>

\* init() gets as far as store.attach(wasm).
ProviderInitSucceeds ==
    /\ providerError = Null
    /\ Attach

NextProvider ==
    \/ ProviderInitFails
    \/ ProviderInitSucceeds
    \/ Subscribe
    \/ StoreExec
    \/ AttachFlush
    \/ RunCommand
    \/ ReturnCommand
    \/ Refresh
    \/ Notify

SpecProvider == InitLane /\ [][NextProvider]_vars

\* ------------------------------------------------------------------------
\* Hit testing: hitTest of main.ts (the web application) and hitTest of
\* render.ts with the FlameGraph component's handleMouseMove (the React
\* package).  layout[id] is the command list wasm.render_view returns for
\* the lane with that id under the current viewport; rects are in
\* lane-local pixels.
\* ------------------------------------------------------------------------

FRAME_HEIGHT == 20

FRAME_GAP == 1

\* Width and height of the FlameGraph component's canvas.
ReactWidth == 200

ReactHeight == 100

\* Largest number of wasm.render_view calls followed in one run.
MaxRenderViewCalls == 3

DrawRect(x, y, w, h, f) == [x |-> x, y |-> y, w |-> w, h |-> h, frame_id |-> f]

\* Command lists of a lane: empty; one span; two siblings that meet at
\* x = 100; a parent and a child; a rect without frame_id under a span;
\* two overlapping spans; a rect without frame_id over a span.
RectLists ==
    { <<>>,
      <<DrawRect(0, 0, 100, 19, 1)>>,
      <<DrawRect(0, 0, 100, 19, 1), DrawRect(100, 0, 100, 19, 2)>>,
      <<DrawRect(0, 0, 200, 19, 1), DrawRect(50, 20, 100, 19, 2)>>,
      <<DrawRect(0, 0, 200, 19, NoFrame), DrawRect(0, 0, 100, 19, 1)>>,
      <<DrawRect(0, 0, 100, 19, 1), DrawRect(50, 0, 100, 19, 2)>>,
      <<DrawRect(0, 0, 100, 19, 1), DrawRect(0, 0, 200, 19, NoFrame)>> }

\* Command lists of the second visible lane.
RectListsBelow == { <<>>, <<DrawRect(0, 0, 200, 19, 7), DrawRect(0, 20, 100, 19, 8)>> }

FlameSpan(start, end, depth, id) == [start |-> start, end |-> end, depth |-> depth, id |-> id]

\* spans props of the FlameGraph component: none; a root with two children
\* that meet; two overlapping spans of one depth; a root with an empty child.
SpanLists ==
    { <<>>,
      <<FlameSpan(0, 200, 0, 1), FlameSpan(0, 100, 1, 2), FlameSpan(100, 200, 1, 3)>>,
      <<FlameSpan(0, 200, 0, 1), FlameSpan(50, 150, 0, 2)>>,
      <<FlameSpan(0, 200, 0, 1), FlameSpan(100, 100, 1, 2)>> }

HitXs == {10, 75, 100, 150, 250}

\* 10: minimap; 70: header of the first lane; 100 and 120: rows 0 and 1 of
\* its body; 200 and 220: rows 0 and 1 of the second visible lane.
HitYs == {10, 70, 100, 120, 200, 220}

ReactXs == {10, 100, 150}

ReactYs == {5, 25, 60}

\* mx >= r.x && mx <= r.x + r.w && localY >= r.y && localY <= r.y + r.h
Contains(r, x, y) == x >= r.x /\ x <= r.x + r.w /\ y >= r.y /\ y <= r.y + r.h

RECURSIVE scanCmds(_, _, _, _, _)
\* for (const cmd of cmds) of main.ts hitTest, from the i-th command on.
scanCmds(cmds, i, mx, localY, profileIndex) ==
    IF i > Len(cmds) THEN NoHit
    ELSE IF cmds[i].frame_id # NoFrame /\ Contains(cmds[i], mx, localY)
           THEN [found |-> TRUE, frameId |-> cmds[i].frame_id, profileIndex |-> profileIndex]
           ELSE scanCmds(cmds, i + 1, mx, localY, profileIndex)

\* Top of the body of the visible lane i in canvas pixels (laneY of hitTest).
bodyTop(i) == laneY(lanes, i) + HEADER_HEIGHT + minimapHeight - globalScrollY

RECURSIVE hitTestLanes(_, _, _, _)
\* The loop of main.ts hitTest over the visible lanes from index i on: the
\* result and the number of wasm.render_view calls made.
hitTestLanes(vis, i, mx, my) ==
    IF i >= Len(vis) THEN [result |-> NoHit, calls |-> 0]
    ELSE IF my < bodyTop(i) \/ my > bodyTop(i) + vis[i + 1].height
           THEN hitTestLanes(vis, i + 1, mx, my)
           ELSE LET r == scanCmds(layout[vis[i + 1].id], 1, mx, my - bodyTop(i),
                                  vis[i + 1].profileIndex)
                    rest == hitTestLanes(vis, i + 1, mx, my)
                IN  IF r.found THEN [result |-> r, calls |-> 1]
                    ELSE [result |-> rest.result, calls |-> 1 + rest.calls]

\* Viewport fractions are multiples of 1 / VpDen.
VpDen == 4

\* viewport.end - viewport.start times totalDuration: viewDuration * VpDen.
viewNum(vp, total) == (vp.end - vp.start) * total

\* (span.start - viewStart) * VpDen
offNum(s, tStart, total, vp) == (s.start - tStart) * VpDen - vp.start * total

\* The x and w of every span at least half a pixel wide are whole numbers
\* of pixels.
flameExact(sp, tStart, total, vp, width) ==
    \A k \in 1..Len(sp) :
        2 * (sp[k].end - sp[k].start) * VpDen * width >= viewNum(vp, total)
            => /\ (offNum(sp[k], tStart, total, vp) * width) % viewNum(vp, total) = 0
               /\ ((sp[k].end - sp[k].start) * VpDen * width) % viewNum(vp, total) = 0

\* x, y, w, h of a span whose rows are FRAME_HEIGHT high and not one pixel
\* apart.
flameRegionNoGap(s, tStart, total, vp, width) ==
    [x |-> (offNum(s, tStart, total, vp) * width) \div viewNum(vp, total),
     y |-> s.depth * FRAME_HEIGHT - vp.scrollY,
     w |-> ((s.end - s.start) * VpDen * width) \div viewNum(vp, total),
     h |-> FRAME_HEIGHT,
     span |-> s]

\* x, y, w, h of a span and the hit region pushed for it.
flameRegion(s, tStart, total, vp, width) ==
    [x |-> (offNum(s, tStart, total, vp) * width) \div viewNum(vp, total),
     y |-> s.depth * FRAME_HEIGHT - vp.scrollY,
     w |-> ((s.end - s.start) * VpDen * width) \div viewNum(vp, total),
     h |-> FRAME_HEIGHT - FRAME_GAP,
     span |-> s]

\* Only a span without duration counts as sub-pixel.
isSubPixelZeroOnly(s, total, vp, width) == s.end - s.start = 0

\* w < MIN_WIDTH_PX, with MIN_WIDTH_PX = 0.5
isSubPixel(s, total, vp, width) == 2 * (s.end - s.start) * VpDen * width < viewNum(vp, total)

\* renderFlameGraph of render.ts for a viewport and a canvas size: the hit
\* regions returned, one per rect drawn.
renderFlameGraphAt(sp, vp, width, height) ==
    LET starts == {sp[k].start : k \in 1..Len(sp)}
        ends == {sp[k].end : k \in 1..Len(sp)}
        tStart == CHOOSE m \in starts : \A o \in starts : m <= o
        tEnd == CHOOSE m \in ends : \A o \in ends : m >= o
        total == tEnd - tStart
        offScreenX(s) ==
            \/ offNum(s, tStart, total, vp) + (s.end - s.start) * VpDen < 0
            \/ offNum(s, tStart, total, vp) > viewNum(vp, total)
        offScreenY(s) ==
            LET y == s.depth * FRAME_HEIGHT - vp.scrollY
            IN  y + (FRAME_HEIGHT - FRAME_GAP) < 0 \/ y > height
        drawn(s) == ~offScreenX(s) /\ ~offScreenY(s) /\ ~isSubPixel(s, total, vp, width)
        kept == SelectSeq(sp, drawn)
    IN  IF sp = <<>> THEN <<>>
        ELSE IF total <= 0 THEN <<>>
        ELSE IF viewNum(vp, total) <= 0 THEN <<>>
        ELSE [k \in 1..Len(kept) |-> flameRegion(kept[k], tStart, total, vp, width)]

\* The whole profile, not scrolled.
FullViewport == [start |-> 0, end |-> VpDen, scrollY |-> 0]

\* renderFlameGraph for the FlameGraph component's canvas showing the
\* whole profile.
renderFlameGraph(sp) == renderFlameGraphAt(sp, FullViewport, ReactWidth, ReactHeight)

RECURSIVE hitTestFrom(_, _, _, _)
\* hitTest of render.ts: the loop from index i (1-based) down; the id of
\* the span found.
hitTestFrom(regions, i, px, py) ==
    IF i < 1 THEN NoSpan
    ELSE IF Contains(regions[i], px, py) THEN regions[i].span.id
    ELSE hitTestFrom(regions, i - 1, px, py)

\* The mousemove listener of main.ts: hitTest(e.offsetX, e.offsetY).
MouseMoveMain ==
    \E mx \in HitXs, my \in HitYs :
        /\ profileLoaded
        /\ LET r == hitTestLanes(visibleLanes(lanes), 0, mx, my)
           IN  /\ renderViewCalls + r.calls <= MaxRenderViewCalls
               /\ hitResult' = r.result
               /\ renderViewCalls' = renderViewCalls + r.calls
        /\ lastOp' = [op |-> "hitTest", x |-> mx, y |-> my]
        /\ UNCHANGED <<layout, spans, hitRegions, hoveredId>>
        /\ UNCHANGED <<laneVars, interactionVars, storeVars, hostVars, loadVars, searchVars, renderVars, svgVars, steps>>

\* The render effect of the FlameGraph component.
RenderCanvas ==
    /\ hitRegions' = renderFlameGraph(spans)
    /\ lastOp' = [op |-> "render"]
    /\ UNCHANGED <<layout, spans, hitResult, hoveredId, renderViewCalls>>
    /\ UNCHANGED <<laneVars, interactionVars, storeVars, hostVars, loadVars, searchVars, renderVars, svgVars, steps>>

\* handleMouseMove of the FlameGraph component while no drag is going on.
HandleMouseMove ==
    \E px \in ReactXs, py \in ReactYs :
        /\ hoveredId' = hitTestFrom(hitRegions, Len(hitRegions), px, py)
        /\ lastOp' = [op |-> "handleMouseMove", x |-> px, y |-> py]
        /\ UNCHANGED <<layout, spans, hitRegions, hitResult, renderViewCalls>>
        /\ UNCHANGED <<laneVars, interactionVars, storeVars, hostVars, loadVars, searchVars, renderVars, svgVars, steps>>

InitHit ==
    /\ viewStart = 0
    /\ viewEnd = One
    /\ globalScrollY = 0
    /\ lanes = LoadedLanes
    /\ profileLoaded = TRUE
    /\ InitInteraction
    /\ InitStore
    /\ InitLoad
    /\ InitSearch
    /\ InitRender
    /\ \E a \in RectLists, b \in RectListsBelow : layout = (1 :> a) @@ (3 :> b)
    /\ spans \in SpanLists
    /\ hitRegions = <<>>
    /\ hitResult = NoHit
    /\ hoveredId = NoSpan
    /\ renderViewCalls = 0
    /\ steps = 0
    /\ lastOp = NoOp

NextHit ==
    \/ MouseMoveMain
    \/ RenderCanvas
    \/ HandleMouseMove

SpecHit == InitHit /\ [][NextHit]_vars

\* ------------------------------------------------------------------------
\* loadFile of main.ts.  The session lives in the Rust viewer behind the
\* wasm exports; clear_session, parse_profile, add_profile_with_label and
\* get_session_info follow the session operations clear(), addProfile and
\* info(): a parse either appends the whole profile or throws and leaves
\* the session as it was.
\* ------------------------------------------------------------------------

\* Largest number of files handed to loadFile in one run.
MaxLoads == 3

MIN_LANE_HEIGHT == 40

MAX_LANE_HEIGHT == 400

AUTO_HIDE_THRESHOLD == 3

\* Files a user can drop: one that does not parse; a profile with two
\* threads, a frame track and content in the middle of its time range; a
\* profile with one deep thread, a counter, markers and async spans.
Files ==
    { [name |-> "bad", ok |-> FALSE],
      [name |-> "a", ok |-> TRUE, start_time |-> 0, end_time |-> 1000,
       threads |-> << [id |-> 1, max_depth |-> 2, span_count |-> 10],
                      [id |-> 2, max_depth |-> 0, span_count |-> 1] >>,
       has_frames |-> TRUE, async_span_count |-> 0, counter_names |-> <<>>, marker_count |-> 0,
       bounds |-> [start |-> 400, end |-> 600]],
      [name |-> "b", ok |-> TRUE, start_time |-> 500, end_time |-> 2500,
       threads |-> << [id |-> 1, max_depth |-> 30, span_count |-> 50] >>,
       has_frames |-> FALSE, async_span_count |-> 2, counter_names |-> <<"heap">>,
       marker_count |-> 4,
       bounds |-> [start |-> 500, end |-> 2500]] }

\* wasm.clear_session()
clear_session(sess) == <<>>

\* wasm.parse_profile(data) and wasm.add_profile_with_label(data, label):
\* whether the parse succeeded, the session it leaves and the handle.
parse_profile(sess, file) ==
    IF file.ok
      THEN [ok |-> TRUE, handle |-> Len(sess),
            session |-> Append(sess, [name |-> file.name, start_time |-> file.start_time,
                                      end_time |-> file.end_time])]
      ELSE [ok |-> FALSE, handle |-> -1, session |-> sess]

\* duration of wasm.get_session_info()
sessionDuration(sess) ==
    LET starts == {sess[k].start_time : k \in 1..Len(sess)}
        ends == {sess[k].end_time : k \in 1..Len(sess)}
    IN  (CHOOSE m \in ends : \A o \in ends : m >= o)
          - (CHOOSE m \in starts : \A o \in starts : m <= o)

\* The lane addLane creates.
NewLane(id, handle, height, visible) ==
    [id |-> id, height |-> height, visible |-> visible, scrollY |-> 0, profileIndex |-> handle]

\* One lane per thread of the profile.
threadLanes(file, handle) ==
    [k \in 1..Len(file.threads) |->
        LET thread == file.threads[k]
            contentHeight == (thread.max_depth + 1) * FRAME_HEIGHT + 8
        IN  NewLane(<<"thread", handle, thread.id>>, handle,
                    Max(MIN_LANE_HEIGHT, Min(MAX_LANE_HEIGHT, contentHeight)),
                    thread.span_count >= AUTO_HIDE_THRESHOLD)]

\* The frame cost, async, counter and marker lanes of the profile.
extraLanes(file, handle) ==
    (IF file.has_frames THEN <<NewLane(<<"frame", handle>>, handle, 60, TRUE)>> ELSE <<>>)
    \o (IF file.async_span_count > 0 THEN <<NewLane(<<"async", handle>>, handle, 120, TRUE)>>
        ELSE <<>>)
    \o [k \in 1..Len(file.counter_names) |->
            NewLane(<<"counter", handle, file.counter_names[k]>>, handle, 60, TRUE)]
    \o (IF file.marker_count > 0 THEN <<NewLane(<<"markers", handle>>, handle, 40, TRUE)>>
        ELSE <<>>)

\* Zoom-to-fit applies: the content is shorter than 95% of the profile.
zoomsToFit(file, duration) ==
    LET contentDuration == file.bounds.end - file.bounds.start
    IN  contentDuration > 0 /\ duration > 0 /\ contentDuration * 100 < duration * 95

\* loadFile(file, additive) up to await file.arrayBuffer().
LoadFile ==
    \E file \in Files, additive \in BOOLEAN :
        /\ steps < MaxLoads
        /\ steps' = steps + 1
        /\ loads' = loads \cup {[file |-> file, additive |-> additive, n |-> steps + 1]}
        /\ lastOp' = [op |-> "loadFile", file |-> file.name, additive |-> additive]
        /\ UNCHANGED <<session, profileDuration, laneVars, interactionVars, storeVars, hostVars, hitVars, searchVars, renderVars, svgVars>>

\* loadFile from the point where file.arrayBuffer() has resolved.
LoadFileResume ==
    \E l \in loads :
        LET file == l.file
            additive == l.additive
            parsed == IF additive THEN parse_profile(session, file)
                      ELSE parse_profile(clear_session(session), file)
            handle == parsed.handle
            duration == file.end_time - file.start_time
            padding == (file.bounds.end - file.bounds.start) \div 20
        IN  /\ loads' = loads \ {l}
            /\ session' = parsed.session
            /\ lastOp' = [op |-> "loaded", file |-> file.name, additive |-> additive,
                          parsed |-> parsed.ok, n |-> l.n]
            /\ IF parsed.ok
                 THEN /\ profileDuration' = IF additive THEN sessionDuration(parsed.session)
                                            ELSE duration
                      /\ profileLoaded' = TRUE
                      /\ lanes' = (IF additive THEN lanes ELSE <<>>)
                                    \o threadLanes(file, handle) \o extraLanes(file, handle)
                      /\ globalScrollY' = IF additive THEN globalScrollY ELSE 0
                      /\ IF ~additive /\ zoomsToFit(file, duration)
                           THEN /\ viewStart' = Max(0, MulDiv(One, file.bounds.start - padding
                                                                 - file.start_time, duration))
                                /\ viewEnd' = Min(One, MulDiv(One, file.bounds.end + padding
                                                                 - file.start_time, duration))
                           ELSE UNCHANGED <<viewStart, viewEnd>>
                 ELSE UNCHANGED <<profileDuration, profileLoaded, laneVars>>
            /\ UNCHANGED <<drag, timeSelection, animationId, raf, storeVars, hostVars, hitVars, searchVars, renderVars, svgVars, steps>>

NextLoad ==
    \/ LoadFile
    \/ LoadFileResume

SpecLoad == InitLane /\ [][NextLoad]_vars

\* The change listener of the file input with one file chosen, up to the
\* await in loadFile(firstFile, false); the files are those that parse.
OnFileInputChange ==
    \E file \in {f \in Files : f.ok} :
        /\ steps < MaxLoads
        /\ steps' = steps + 1
        /\ loads' = loads \cup {[file |-> file, additive |-> FALSE, n |-> steps + 1]}
        /\ lastOp' = [op |-> "loadFile", file |-> file.name, additive |-> FALSE]
        /\ UNCHANGED <<session, profileDuration, laneVars, interactionVars, storeVars, hostVars,
                       hitVars, searchVars, renderVars, svgVars>>

NextFileInput ==
    \/ OnFileInputChange
    \/ LoadFileResume

SpecFileInput == InitLane /\ [][NextFileInput]_vars

\* ------------------------------------------------------------------------
\* The vertical layout of the LaneManager driven through its public
\* methods: moveLane, laneY, laneAtY and scrollGlobal on lane lists of up to
\* four lanes, one of them hidden.  A query leaves its result in lastOp.
\* ------------------------------------------------------------------------

\* The lanes of the layout runs: heights 60, 40 (hidden), 100 and 80.
LayoutLanes ==
    << [id |-> 1, height |-> 60, visible |-> TRUE, scrollY |-> 0, profileIndex |-> 0],
       [id |-> 2, height |-> 40, visible |-> FALSE, scrollY |-> 0, profileIndex |-> 0],
       [id |-> 3, height |-> 100, visible |-> TRUE, scrollY |-> 0, profileIndex |-> 0],
       [id |-> 4, height |-> 80, visible |-> TRUE, scrollY |-> 0, profileIndex |-> 0] >>

\* Indices passed to moveLane and laneY, valid and invalid.
LaneIndices == -1..4

\* Rows asked of laneAtY: above the lanes, the edges of the bands of the
\* unscrolled layout (0, 88, 216, 324) and rows inside them.
LayoutYs == {-50, -1, 0, 27, 28, 87, 88, 100, 215, 216, 300, 323, 324, 400}

ScrollDys == {-500, -40, 40, 100, 500}

ViewportHeights == {100, 136, 1000}

\* laneManager.moveLane(fromIndex, toIndex)
CallMoveLane ==
    \E fromIndex \in LaneIndices, toIndex \in LaneIndices :
        /\ lanes' = moveLane(lanes, fromIndex, toIndex)
        /\ lastOp' = [op |-> "moveLane", fromIndex |-> fromIndex, toIndex |-> toIndex,
                      pre |-> lanes]
        /\ UNCHANGED <<viewStart, viewEnd, globalScrollY, steps>>
        /\ UNCHANGED <<interactionVars, storeVars, hostVars, hitVars, loadVars, searchVars, renderVars, svgVars>>

\* laneManager.laneY(index)
CallLaneY ==
    \E index \in LaneIndices :
        /\ lastOp' = [op |-> "laneY", index |-> index, result |-> laneY(lanes, index)]
        /\ UNCHANGED <<laneVars, steps>>
        /\ UNCHANGED <<interactionVars, storeVars, hostVars, hitVars, loadVars, searchVars, renderVars, svgVars>>

\* laneManager.laneAtY(y)
CallLaneAtY ==
    \E y \in LayoutYs :
        /\ lastOp' = [op |-> "laneAtY", y |-> y, result |-> laneAtY(lanes, globalScrollY, y)]
        /\ UNCHANGED <<laneVars, steps>>
        /\ UNCHANGED <<interactionVars, storeVars, hostVars, hitVars, loadVars, searchVars, renderVars, svgVars>>

\* laneManager.scrollGlobal(dy, viewportHeight)
CallScrollGlobal ==
    \E dy \in ScrollDys, viewportHeight \in ViewportHeights :
        /\ globalScrollY' = scrollGlobal(lanes, globalScrollY, dy, viewportHeight)
        /\ lastOp' = [op |-> "scrollGlobal", dy |-> dy, viewportHeight |-> viewportHeight,
                      pre |-> globalScrollY]
        /\ UNCHANGED <<viewStart, viewEnd, lanes, steps>>
        /\ UNCHANGED <<interactionVars, storeVars, hostVars, hitVars, loadVars, searchVars, renderVars, svgVars>>

InitLayout ==
    /\ viewStart = 0
    /\ viewEnd = One
    /\ globalScrollY = 0
    /\ \E n \in 0..Len(LayoutLanes) : lanes = SubSeq(LayoutLanes, 1, n)
    /\ profileLoaded = FALSE
    /\ InitInteraction
    /\ InitStore
    /\ InitCanvas
    /\ InitLoad
    /\ InitSearch
    /\ InitRender
    /\ steps = 0
    /\ lastOp = NoOp

NextLayout ==
    \/ CallMoveLane
    \/ CallLaneY
    \/ CallLaneAtY
    \/ CallScrollGlobal

SpecLayout == InitLayout /\ [][NextLayout]_vars

\* ------------------------------------------------------------------------
\* Search and selection highlighting in renderAll of main.ts.  A string is
\* the sequence of its characters.  layout[id] is the command list the
\* viewer returns for the lane; lastOp.rendered is the lane part of the
\* allCommands the handler's renderAll produced.
\* ------------------------------------------------------------------------

\* A label or name that is present.
Some(text) == [some |-> TRUE, text |-> text]

\* A JavaScript string or null used as a condition.
Truthy(t) == t.some /\ t.text # <<>>

NameParse == <<"P", "a", "r", "s", "e">>

NameRender == <<"r", "e", "n", "d", "e", "r">>

NameGC == <<"G", "C">>

\* The span names by frame_id.
NameOf(f) == CASE f = 1 -> NameParse [] f = 2 -> NameRender [] OTHER -> NameGC

\* Queries typed into the search bar.
Queries == { <<>>, <<"p", "a", "r">>, <<"R">>, <<"g", "c">>, <<"x">> }

\* String.prototype.toLowerCase on the characters in use.
LowerChar(ch) ==
    CASE ch = "P" -> "p" [] ch = "R" -> "r" [] ch = "G" -> "g" [] ch = "C" -> "c" [] OTHER -> ch

toLowerCase(s) == [i \in 1..Len(s) |-> LowerChar(s[i])]

\* String.prototype.includes
includes(s, q) == \E i \in 0..(Len(s) - Len(q)) : SubSeq(s, i + 1, i + Len(q)) = q

\* DrawRect of a span: labelled with its name when wide enough for a
\* label, unlabelled otherwise.
SpanRect(x, w, f, labelled) ==
    [cmd |-> "DrawRect", rect |-> [x |-> x, y |-> 0, w |-> w, h |-> 19], color |-> "FlameHot",
     border_color |-> "Border", label |-> IF labelled THEN Some(NameOf(f)) ELSE NoText,
     frame_id |-> f]

\* A rect that belongs to no span.
PlainRect == [cmd |-> "DrawRect", rect |-> [x |-> 0, y |-> 0, w |-> 1000, h |-> 60],
              color |-> "Background", border_color |-> "null", label |-> NoText,
              frame_id |-> NoFrame]

TextCmd == [cmd |-> "DrawText", text |-> NameParse]

\* Command lists of the first lane: empty; labelled spans; a background
\* rect, a text and spans of which one is too narrow for a label.
SearchCmdLists ==
    { <<>>,
      <<SpanRect(0, 100, 1, TRUE), SpanRect(100, 100, 2, TRUE)>>,
      <<PlainRect, SpanRect(0, 100, 1, TRUE), TextCmd, SpanRect(100, 10, 2, FALSE),
        SpanRect(200, 100, 3, TRUE)>>,
      <<SpanRect(0, 10, 1, FALSE), SpanRect(100, 100, 3, TRUE)>> }

\* The overlay pushed after a highlighted rect.
Overlay(c) ==
    [cmd |-> "DrawRect", rect |-> c.rect, color |-> "SearchHighlight", border_color |-> "Border",
     label |-> NoText, frame_id |-> NoFrame]

\* { ...cmd.DrawRect, color: "FlameNeutral", border_color: null }
Dimmed(c) == [c EXCEPT !.color = "FlameNeutral", !.border_color = "null"]

\* The test that sends a command through the highlight / dim branches.
IsLabelledSpan(c) == c.cmd = "DrawRect" /\ Truthy(c.label) /\ c.frame_id # NoFrame

RECURSIVE searchCmds(_, _, _)
\* The loop of the search branch over laneCmds from the i-th command on.
searchCmds(cmds, i, lowerQ) ==
    IF i > Len(cmds) THEN <<>>
    ELSE (IF IsLabelledSpan(cmds[i])
            THEN IF includes(toLowerCase(cmds[i].label.text), lowerQ)
                   THEN <<cmds[i], Overlay(cmds[i])>>
                   ELSE <<Dimmed(cmds[i])>>
            ELSE <<cmds[i]>>)
         \o searchCmds(cmds, i + 1, lowerQ)

RECURSIVE selectionCmds(_, _, _)
\* The loop of the selection branch over laneCmds from the i-th command on.
selectionCmds(cmds, i, name) ==
    IF i > Len(cmds) THEN <<>>
    ELSE (IF IsLabelledSpan(cmds[i])
            THEN IF cmds[i].label.text = name.text
                   THEN <<cmds[i], Overlay(cmds[i])>>
                   ELSE <<Dimmed(cmds[i])>>
            ELSE <<cmds[i]>>)
         \o selectionCmds(cmds, i + 1, name)

\* The commands renderAll pushes for the content of one lane.
laneContent(cmds, query, selected) ==
    IF query # <<>> THEN searchCmds(cmds, 1, toLowerCase(query))
    ELSE IF Truthy(selected) THEN selectionCmds(cmds, 1, selected)
    ELSE cmds

RECURSIVE renderLanes(_, _, _, _)
\* The loop of renderAll over the visible lanes from index i on.
renderLanes(vis, i, query, selected) ==
    IF i >= Len(vis) THEN <<>>
    ELSE << [cmd |-> "PushTransform", x |-> 0, y |-> bodyTop(i)],
            [cmd |-> "SetClip", w |-> CanvasWidth, h |-> vis[i + 1].height] >>
         \o laneContent(layout[vis[i + 1].id], query, selected)
         \o << [cmd |-> "ClearClip"], [cmd |-> "PopTransform"] >>
         \o renderLanes(vis, i + 1, query, selected)

\* renderAll(): the lane part of allCommands.
renderAll(query, selected) == renderLanes(visibleLanes(lanes), 0, query, selected)

\* What hitTest followed by the click listener can select: a rect with a
\* frame_id, under its label or under "unknown" without one, or nothing.
Clickable ==
    {NoSelection} \cup
    UNION { {[some |-> TRUE,
              text |-> IF layout[id][k].label.some THEN layout[id][k].label.text
                       ELSE <<"u", "n", "k", "n", "o", "w", "n">>,
              frame |-> layout[id][k].frame_id] :
               k \in {j \in 1..Len(layout[id]) :
                        layout[id][j].cmd = "DrawRect" /\ layout[id][j].frame_id # NoFrame}} :
            id \in DOMAIN layout }

\* The search bar's onQueryChange callback that keeps the query when the
\* box is emptied.
onQueryChangeKeepsLast(old, query) == IF query = <<>> THEN old ELSE query

\* The search bar's onQueryChange callback: the searchQuery it leaves.
onQueryChange(old, query) == query

\* The user edits the search box.
OnQueryChange ==
    \E query \in Queries :
        /\ query # searchQuery
        /\ searchQuery' = onQueryChange(searchQuery, query)
        /\ unsearched' = IF searchQuery' = <<>>
                           THEN [cmds |-> renderAll(searchQuery', selectedSpanName),
                                 selected |-> selectedSpanName]
                           ELSE unsearched
        /\ lastOp' = [op |-> "search", query |-> query, was |-> searchQuery,
                      before |-> unsearched,
                      rendered |-> renderAll(searchQuery', selectedSpanName)]
        /\ UNCHANGED selectedSpanName
        /\ UNCHANGED <<laneVars, interactionVars, storeVars, hostVars, hitVars, loadVars, renderVars, svgVars, steps>>

\* The search bar is closed (Escape or the close button).
OnSearchClose ==
    /\ searchQuery' = <<>>
    /\ unsearched' = [cmds |-> renderAll(<<>>, selectedSpanName), selected |-> selectedSpanName]
    /\ lastOp' = [op |-> "close", query |-> <<>>, was |-> searchQuery, before |-> unsearched,
                  rendered |-> renderAll(<<>>, selectedSpanName)]
    /\ UNCHANGED selectedSpanName
    /\ UNCHANGED <<laneVars, interactionVars, storeVars, hostVars, hitVars, loadVars, renderVars, svgVars, steps>>

\* The click listener of the canvas: the span under the pointer becomes
\* the selection, or the selection is cleared.  The viewer's command lists
\* are taken to be the same for every selected frame.
OnClick ==
    \E name \in Clickable :
        /\ selectedSpanName' = name
        /\ unsearched' = IF searchQuery = <<>>
                           THEN [cmds |-> renderAll(searchQuery, name), selected |-> name]
                           ELSE unsearched
        /\ lastOp' = [op |-> "click", query |-> searchQuery, was |-> searchQuery,
                      before |-> unsearched, rendered |-> renderAll(searchQuery, name)]
        /\ UNCHANGED searchQuery
        /\ UNCHANGED <<laneVars, interactionVars, storeVars, hostVars, hitVars, loadVars, renderVars, svgVars, steps>>

InitSearchRun ==
    /\ viewStart = 0
    /\ viewEnd = One
    /\ globalScrollY = 0
    /\ lanes = LoadedLanes
    /\ profileLoaded = TRUE
    /\ InitInteraction
    /\ InitStore
    /\ InitLoad
    /\ \E a \in SearchCmdLists : layout = (1 :> a) @@ (3 :> <<SpanRect(0, 50, 3, TRUE)>>)
    /\ renderViewCalls = 0
    /\ hitResult = NoHit
    /\ spans = <<>>
    /\ hitRegions = <<>>
    /\ hoveredId = NoSpan
    /\ searchQuery = <<>>
    /\ selectedSpanName = NoSelection
    /\ unsearched = [cmds |-> renderAll(<<>>, NoSelection), selected |-> NoSelection]
    /\ InitRender
    /\ steps = 0
    /\ lastOp = NoOp

NextSearch ==
    \/ OnQueryChange
    \/ OnSearchClose
    \/ OnClick

SpecSearch == InitSearchRun /\ [][NextSearch]_vars

\* ------------------------------------------------------------------------
\* renderAll(): the whole command list of one frame, with the viewer's
\* render calls failing or not.  The flow arrows and the time selection
\* overlay add drawing commands only and are left out.
\* ------------------------------------------------------------------------

\* How the time-axis block can end: it completes, get_profile_metadata
\* throws, or render_time_axis (or the parse of its result) throws.
AxisOutcomes == {"ok", "metadata", "render"}

\* The commands the viewer returns for the minimap and for the time axis.
MinimapCmds == <<[cmd |-> "DrawRect", rect |-> [x |-> 0, y |-> 0, w |-> CanvasWidth, h |-> MINIMAP_HEIGHT]]>>

AxisCmds == <<[cmd |-> "DrawLine"], [cmd |-> "DrawText", text |-> <<"0">>]>>

\* The minimap block: all of the viewer's commands, or none when it throws.
minimapBlock(throws) == IF throws THEN <<>> ELSE MinimapCmds

\* The time-axis block: PushTransform is pushed before render_time_axis
\* is called, PopTransform after its commands.
axisBlock(outcome) ==
    IF outcome = "metadata" THEN <<>>
    ELSE IF outcome = "render" THEN <<[cmd |-> "PushTransform", x |-> 0, y |-> MINIMAP_HEIGHT]>>
    ELSE <<[cmd |-> "PushTransform", x |-> 0, y |-> MINIMAP_HEIGHT]>> \o AxisCmds
         \o <<[cmd |-> "PopTransform"]>>

RECURSIVE renderHeaders(_, _)
\* LaneManager.renderHeaders: the header background of every visible lane
\* (its two texts are left out).
renderHeaders(vis, i) ==
    IF i >= Len(vis) THEN <<>>
    ELSE <<[cmd |-> "DrawRect",
            rect |-> [x |-> 0, y |-> laneY(lanes, i) + minimapHeight - globalScrollY,
                      w |-> CanvasWidth, h |-> HEADER_HEIGHT]]>>
         \o renderHeaders(vis, i + 1)

RECURSIVE frameLanes(_, _, _, _, _)
\* The loop of renderAll over the visible lanes from index i on; the lanes
\* in thrown are those whose viewer call throws, which happens before
\* anything of the lane is pushed.
frameLanes(vis, i, query, selected, thrown) ==
    IF i >= Len(vis) THEN <<>>
    ELSE (IF i \in thrown THEN <<>>
          ELSE << [cmd |-> "PushTransform", x |-> 0, y |-> bodyTop(i)],
                  [cmd |-> "SetClip", w |-> CanvasWidth, h |-> vis[i + 1].height] >>
               \o laneContent(layout[vis[i + 1].id], query, selected)
               \o << [cmd |-> "ClearClip"], [cmd |-> "PopTransform"] >>)
         \o frameLanes(vis, i + 1, query, selected, thrown)

\* allCommands as renderAll hands it to renderer.render.
frameCommands(query, selected, minimapThrows, axis, thrown) ==
    (IF profileLoaded /\ lanes # <<>>
       THEN minimapBlock(minimapThrows) \o axisBlock(axis)
       ELSE <<>>)
    \o <<[cmd |-> "SetClip", w |-> CanvasWidth, h |-> CanvasHeight - minimapHeight]>>
    \o renderHeaders(visibleLanes(lanes), 0)
    \o frameLanes(visibleLanes(lanes), 0, query, selected, thrown)
    \o <<[cmd |-> "ClearClip"]>>

\* One frame: renderAll builds the list and hands it to the renderer.
RenderFrame ==
    \E minimapThrows \in BOOLEAN, axis \in AxisOutcomes,
       thrown \in SUBSET (0..(Len(visibleLanes(lanes)) - 1)) :
        /\ lastOp' = [op |-> "frame", axis |-> axis, minimapThrows |-> minimapThrows,
                      thrown |-> thrown,
                      commands |-> frameCommands(searchQuery, selectedSpanName, minimapThrows,
                                                 axis, thrown)]
        /\ UNCHANGED <<searchVars, laneVars, interactionVars, storeVars, hostVars, hitVars,
                       loadVars, renderVars, svgVars, steps>>

NextFrame ==
    \/ RenderFrame
    \/ OnQueryChange
    \/ OnSearchClose
    \/ OnClick

SpecFrame == InitSearchRun /\ [][NextFrame]_vars

\* ------------------------------------------------------------------------
\* The renderers' clip and transform state while render() walks a command
\* list.  devicePixelRatio is 1 and the scroll offsets are 0.
\* ------------------------------------------------------------------------

\* Number of commands in one command list.
MaxRenderCommands == 4

\* PushTransform arguments.
Transforms == { [tx |-> 0, ty |-> 68, sx |-> 1, sy |-> 1], [tx |-> 10, ty |-> 0, sx |-> 2, sy |-> 1] }

\* SetClip rects.
ClipRects == { [x |-> 0, y |-> 0, w |-> 1000, h |-> 60], [x |-> 20, y |-> 10, w |-> 100, h |-> 30] }

\* The transform in force after PushTransform(t) under cur.
compose(cur, t) ==
    [tx |-> cur.tx + t.tx * cur.sx, ty |-> cur.ty + t.ty * cur.sy,
     sx |-> cur.sx * t.sx, sy |-> cur.sy * t.sy]

\* WebGPURenderer: "PushTransform" in cmd
gpuPushTransform(g, t) ==
    [g EXCEPT !.transformStack = Append(@, g.cur), !.cur = compose(g.cur, t)]

\* WebGPURenderer: cmd === "PopTransform"
gpuPopTransform(g) ==
    IF g.transformStack # <<>>
    THEN [g EXCEPT !.cur = g.transformStack[Len(g.transformStack)],
                   !.transformStack = SubSeq(@, 1, Len(@) - 1)]
    ELSE [g EXCEPT !.cur = Identity]

\* WebGPURenderer: "SetClip" in cmd; the scissor in pixels, intersected
\* with the canvas and with the current scissor.
gpuSetClip(g, cr) ==
    LET cx == cr.x * g.cur.sx + g.cur.tx
        cy == cr.y * g.cur.sy + g.cur.ty
        cw == cr.w * g.cur.sx
        ch == cr.h * g.cur.sy
        sx0 == Max(0, cx)
        sy0 == Max(0, cy)
        sw0 == Min(CanvasWidth, cx + cw) - sx0
        sh0 == Min(CanvasHeight, cy + ch) - sy0
        cs == g.currentScissor
        nx == IF cs = NoClip THEN sx0 ELSE Max(sx0, cs.x)
        ny == IF cs = NoClip THEN sy0 ELSE Max(sy0, cs.y)
        sw == IF cs = NoClip THEN sw0 ELSE Min(sx0 + sw0, cs.x + cs.w) - nx
        sh == IF cs = NoClip THEN sh0 ELSE Min(sy0 + sh0, cs.y + cs.h) - ny
        clip == [none |-> FALSE, x |-> nx, y |-> ny, w |-> Max(0, sw), h |-> Max(0, sh)]
    IN  [g EXCEPT !.clipStack = Append(@, clip), !.currentScissor = clip]

\* WebGPURenderer: cmd === "ClearClip"
gpuClearClip(g) ==
    LET rest == IF g.clipStack = <<>> THEN <<>> ELSE SubSeq(g.clipStack, 1, Len(g.clipStack) - 1)
    IN  [g EXCEPT !.clipStack = rest,
                  !.currentScissor = IF rest # <<>> THEN rest[Len(rest)] ELSE NoClip]

\* CanvasRenderingContext2D.save()
ctxSave(c) == [c EXCEPT !.saved = Append(@, [transform |-> c.transform, clip |-> c.clip])]

\* CanvasRenderingContext2D.restore(): the state saved last comes back;
\* nothing happens when no state is saved.
ctxRestore(c) ==
    IF c.saved = <<>> THEN c
    ELSE [c EXCEPT !.transform = c.saved[Len(c.saved)].transform,
                   !.clip = c.saved[Len(c.saved)].clip,
                   !.saved = SubSeq(@, 1, Len(@) - 1)]

\* ctx.rect(...); ctx.clip(): the clip region becomes its intersection
\* with the rect under the current transform.
ctxClip(c, r) ==
    LET x0 == r.x * c.transform.sx + c.transform.tx
        y0 == r.y * c.transform.sy + c.transform.ty
        w0 == r.w * c.transform.sx
        h0 == r.h * c.transform.sy
        nx == IF c.clip = NoClip THEN x0 ELSE Max(x0, c.clip.x)
        ny == IF c.clip = NoClip THEN y0 ELSE Max(y0, c.clip.y)
        nw == IF c.clip = NoClip THEN w0 ELSE Min(x0 + w0, c.clip.x + c.clip.w) - nx
        nh == IF c.clip = NoClip THEN h0 ELSE Min(y0 + h0, c.clip.y + c.clip.h) - ny
    IN  [c EXCEPT !.clip = [none |-> FALSE, x |-> nx, y |-> ny, w |-> Max(0, nw), h |-> Max(0, nh)]]

\* CanvasRenderer: "PushTransform" in cmd
canvasPushTransform(c, t) ==
    LET s == ctxSave(c)
    IN  [s EXCEPT !.transform = compose(c.transform, t), !.transformStack = Append(@, t)]

\* CanvasRenderer: case "PopTransform"
canvasPopTransform(c) ==
    LET r == ctxRestore(c)
    IN  [r EXCEPT !.transformStack = IF @ = <<>> THEN <<>> ELSE SubSeq(@, 1, Len(@) - 1)]

\* CanvasRenderer: "SetClip" in cmd
canvasSetClip(c, r) == ctxClip(ctxSave(c), r)

\* CanvasRenderer: case "ClearClip"
canvasClearClip(c) == ctxRestore(c)

\* The history without its last entry.
Closed(h) == IF h = <<>> THEN <<>> ELSE SubSeq(h, 1, Len(h) - 1)

RenderPre == [webgpu |-> webgpu, canvas2d |-> canvas2d, nesting |-> nesting]

\* The next command is PushTransform.
RenderPushTransform ==
    \E t \in Transforms :
        /\ steps < MaxRenderCommands
        /\ webgpu' = gpuPushTransform(webgpu, t)
        /\ canvas2d' = canvasPushTransform(canvas2d, t)
        /\ nesting' = [nesting EXCEPT !.webgpu.txs = Append(@, webgpu.cur),
                                      !.canvas2d.txs = Append(@, canvas2d.transform)]
        /\ lastOp' = [op |-> "PushTransform", pre |-> RenderPre]
        /\ UNCHANGED buffers
        /\ steps' = steps + 1
        /\ UNCHANGED <<laneVars, interactionVars, storeVars, hostVars, hitVars, loadVars, searchVars, svgVars>>

\* The next command is SetClip.
RenderSetClip ==
    \E r \in ClipRects :
        /\ steps < MaxRenderCommands
        /\ webgpu' = gpuSetClip(webgpu, r)
        /\ canvas2d' = canvasSetClip(canvas2d, r)
        /\ nesting' = [nesting EXCEPT !.webgpu.clips = Append(@, webgpu.currentScissor),
                                      !.canvas2d.clips = Append(@, canvas2d.clip)]
        /\ lastOp' = [op |-> "SetClip", pre |-> RenderPre]
        /\ UNCHANGED buffers
        /\ steps' = steps + 1
        /\ UNCHANGED <<laneVars, interactionVars, storeVars, hostVars, hitVars, loadVars, searchVars, svgVars>>

\* The next command is "ClearClip".
RenderClearClip ==
    /\ steps < MaxRenderCommands
    /\ webgpu' = gpuClearClip(webgpu)
    /\ canvas2d' = canvasClearClip(canvas2d)
    /\ nesting' = [nesting EXCEPT !.webgpu.clips = Closed(@), !.canvas2d.clips = Closed(@)]
    /\ lastOp' = [op |-> "ClearClip", pre |-> RenderPre]
    /\ UNCHANGED buffers
    /\ steps' = steps + 1
    /\ UNCHANGED <<laneVars, interactionVars, storeVars, hostVars, hitVars, loadVars, searchVars, svgVars>>

\* The next command is "PopTransform".
RenderPopTransform ==
    /\ steps < MaxRenderCommands
    /\ webgpu' = gpuPopTransform(webgpu)
    /\ canvas2d' = canvasPopTransform(canvas2d)
    /\ nesting' = [nesting EXCEPT !.webgpu.txs = Closed(@), !.canvas2d.txs = Closed(@)]
    /\ lastOp' = [op |-> "PopTransform", pre |-> RenderPre]
    /\ UNCHANGED buffers
    /\ steps' = steps + 1
    /\ UNCHANGED <<laneVars, interactionVars, storeVars, hostVars, hitVars, loadVars, searchVars, svgVars>>

\* The next command is a DrawLine, or a DrawRect or DrawText whose inner
\* save and restore balance: stacks, transform and clip stay.
RenderDraw ==
    /\ steps < MaxRenderCommands
    /\ lastOp' = [op |-> "Draw", pre |-> RenderPre]
    /\ steps' = steps + 1
    /\ UNCHANGED renderVars
    /\ UNCHANGED <<laneVars, interactionVars, storeVars, hostVars, hitVars, loadVars, searchVars, svgVars>>

NextRender ==
    \/ RenderPushTransform
    \/ RenderSetClip
    \/ RenderClearClip
    \/ RenderPopTransform
    \/ RenderDraw

SpecRender == InitLane /\ [][NextRender]_vars

\* ------------------------------------------------------------------------
\* WebGPURenderer: the instance buffers.  A buffer is its capacity and an
\* id that changes whenever createBuffer makes a new one.
\* ------------------------------------------------------------------------

\* Smallest rect instance buffer.
MinRectCapacity == 2048

\* Smallest instance buffer of the single-pipeline renderer.
MinInstanceCapacity == 1024

\* Instance counts of a frame.
InstanceCounts == {0, 1, 1000, 1024, 1025, 2048, 2049, 3000, 4096, 4097, 5000, 8192, 10000}

\* ensureRectBuffer / ensureInstanceBuffer: the buffer after the call,
\* with floor as the smallest capacity allocated.
ensureBuffer(b, count, floor) ==
    IF count <= b.capacity THEN b
    ELSE [capacity |-> Max(count, Max(b.capacity * 2, floor)), id |-> b.id + 1]

\* this.ensureRectBuffer(count), from init() with 2048 and from render()
\* with the frame's rect count.
EnsureRectBuffer ==
    \E count \in InstanceCounts :
        /\ buffers' = [buffers EXCEPT !.rect = ensureBuffer(@, count, MinRectCapacity)]
        /\ lastOp' = [op |-> "ensureBuffer", count |-> count, pre |-> buffers.rect,
                      post |-> buffers'.rect]
        /\ UNCHANGED <<webgpu, canvas2d, nesting>>
        /\ UNCHANGED <<laneVars, interactionVars, storeVars, hostVars, hitVars, loadVars, searchVars, svgVars, steps>>

\* this.ensureInstanceBuffer(count), from init() with 1024 and from
\* render() with the frame's rect count.
EnsureInstanceBuffer ==
    \E count \in InstanceCounts :
        /\ buffers' = [buffers EXCEPT !.instance = ensureBuffer(@, count, MinInstanceCapacity)]
        /\ lastOp' = [op |-> "ensureBuffer", count |-> count, pre |-> buffers.instance,
                      post |-> buffers'.instance]
        /\ UNCHANGED <<webgpu, canvas2d, nesting>>
        /\ UNCHANGED <<laneVars, interactionVars, storeVars, hostVars, hitVars, loadVars, searchVars, svgVars, steps>>

NextBuffers ==
    \/ EnsureRectBuffer
    \/ EnsureInstanceBuffer

SpecBuffers == InitLane /\ [][NextBuffers]_vars

\* ------------------------------------------------------------------------
\* SvgRenderer.render: the tree of elements.  Node 0 is the <svg> element,
\* node 1 the <g> it starts with; svg.parent[n] is the parent of node n.
\* ------------------------------------------------------------------------

\* Number of commands in one command list given to the SVG renderer.
MaxSvgCommands == 5

\* currentGroup.appendChild(e): e becomes the next node.
appendChild(t) == [t EXCEPT !.parent = Append(@, t.currentGroup)]

\* "BeginGroup" in cmd: a new <g> under currentGroup becomes currentGroup.
svgBeginGroup(t) ==
    [parent |-> Append(t.parent, t.currentGroup), currentGroup |-> Len(t.parent) + 1]

\* typeof cmd === "string": continue.
svgString(t) == t

\* The next command is DrawRect, DrawText or DrawLine.
SvgDraw ==
    /\ steps < MaxSvgCommands
    /\ svg' = appendChild(svg)
    /\ lastOp' = [op |-> "svgDraw", node |-> Len(svg'.parent)]
    /\ steps' = steps + 1
    /\ UNCHANGED groups
    /\ UNCHANGED <<laneVars, interactionVars, storeVars, hostVars, hitVars, loadVars, searchVars, renderVars>>

\* The next command is BeginGroup.
SvgBeginGroup ==
    /\ steps < MaxSvgCommands
    /\ svg' = svgBeginGroup(svg)
    /\ groups' = [groups EXCEPT !.open = Append(@, svg'.currentGroup)]
    /\ lastOp' = [op |-> "BeginGroup", node |-> svg'.currentGroup]
    /\ steps' = steps + 1
    /\ UNCHANGED <<laneVars, interactionVars, storeVars, hostVars, hitVars, loadVars, searchVars, renderVars>>

\* The next command is a string: "EndGroup" (with a group open) or
\* "ClearClip".
SvgString ==
    \E cmd \in {"EndGroup", "ClearClip"} :
        /\ steps < MaxSvgCommands
        /\ cmd = "EndGroup" => groups.open # <<>>
        /\ svg' = svgString(svg)
        /\ groups' = IF cmd = "EndGroup"
                       THEN [open |-> SubSeq(groups.open, 1, Len(groups.open) - 1),
                             closed |-> groups.closed \cup {groups.open[Len(groups.open)]}]
                       ELSE groups
        /\ lastOp' = [op |-> cmd, node |-> 0]
        /\ steps' = steps + 1
        /\ UNCHANGED <<laneVars, interactionVars, storeVars, hostVars, hitVars, loadVars, searchVars, renderVars>>

NextSvg ==
    \/ SvgDraw
    \/ SvgBeginGroup
    \/ SvgString

SpecSvg == InitLane /\ [][NextSvg]_vars

\* ------------------------------------------------------------------------
\* renderFlameGraph of render.ts over viewports and canvas sizes
\* ------------------------------------------------------------------------

\* A(0..1000, depth 0), B(100..400, depth 1), C(500..900, depth 1)
SpansABC == <<FlameSpan(0, 1000, 0, 1), FlameSpan(100, 400, 1, 2), FlameSpan(500, 900, 1, 3)>>

\* spans props: none; A, B, C; a root with a child of no duration and a
\* child of duration 2; a single span of no duration; a root with a child of
\* duration 1 and a grandchild; two roots, the second of duration 2.
FlameSpanLists ==
    { <<>>,
      SpansABC,
      <<FlameSpan(0, 1000, 0, 1), FlameSpan(500, 500, 1, 2), FlameSpan(600, 602, 1, 3)>>,
      <<FlameSpan(300, 300, 0, 1)>>,
      <<FlameSpan(0, 1000, 0, 1), FlameSpan(250, 251, 1, 2), FlameSpan(500, 750, 2, 3)>>,
      <<FlameSpan(0, 500, 0, 1), FlameSpan(998, 1000, 0, 2)>> }

\* viewport props: the whole profile; its first quarter; its second half;
\* an empty window; the whole profile scrolled down one row.
FlameViewports ==
    { FullViewport,
      [start |-> 0, end |-> 1, scrollY |-> 0],
      [start |-> 2, end |-> 4, scrollY |-> 0],
      [start |-> 2, end |-> 2, scrollY |-> 0],
      [start |-> 0, end |-> VpDen, scrollY |-> 20] }

FlameWidths == {200, 1000, 4000}

FlameHeights == {40, 100}

\* computeTimeRange(spans)
computeTimeRange(sp) ==
    IF sp = <<>> THEN [start |-> 0, end |-> 1]
    ELSE LET starts == {sp[k].start : k \in 1..Len(sp)}
             ends == {sp[k].end : k \in 1..Len(sp)}
         IN  [start |-> CHOOSE m \in starts : \A o \in starts : m <= o,
              end |-> CHOOSE m \in ends : \A o \in ends : m >= o]

\* The FlameGraph component draws: renderFlameGraph(ctx, options).
RenderFlameGraph ==
    \E vp \in FlameViewports, width \in FlameWidths, height \in FlameHeights :
        LET tr == computeTimeRange(spans)
            total == tr.end - tr.start
            regions == renderFlameGraphAt(spans, vp, width, height)
        IN  /\ (total > 0 /\ viewNum(vp, total) > 0)
                 => flameExact(spans, tr.start, total, vp, width)
            /\ hitRegions' = regions
            /\ lastOp' = [op |-> "renderFlameGraph", viewport |-> vp, width |-> width,
                          height |-> height]
            /\ UNCHANGED <<layout, spans, hitResult, hoveredId, renderViewCalls>>
            /\ UNCHANGED <<laneVars, interactionVars, storeVars, hostVars, loadVars, searchVars, renderVars,
                           svgVars, steps>>

InitFlame ==
    /\ InitLaneManager
    /\ profileLoaded = FALSE
    /\ InitInteraction
    /\ InitStore
    /\ InitLoad
    /\ InitSearch
    /\ InitRender
    /\ layout = <<>>
    /\ spans \in FlameSpanLists
    /\ hitRegions = <<>>
    /\ hitResult = NoHit
    /\ hoveredId = NoSpan
    /\ renderViewCalls = 0
    /\ steps = 0
    /\ lastOp = NoOp

NextFlame == RenderFlameGraph

SpecFlame == InitFlame /\ [][NextFlame]_vars

\* ------------------------------------------------------------------------
\* Properties
\* ------------------------------------------------------------------------

Clamp(x, lo, hi) == Max(lo, Min(hi, x))

\* C2: zoomAt(factor, focal_px, canvas_width) leaves span' = clamp(span /
\* factor, 0.0001, 1), start' = clamp(focal_time - focal_frac * span', 0,
\* 1 - span') and end' = start' + span', where focal_frac = focal_px /
\* canvas_width and focal_time = start + focal_frac * span; zoomAt(2, 500,
\* 1000) from [0, 1] gives [0.25, 0.75].  (Both sides are compared after
\* multiplying out the denominators.)
C2_ZoomAtFormula ==
    lastOp.op = "zoomAt" =>
        LET span == lastOp.preEnd - lastOp.preStart
            newSpan == viewEnd - viewStart
            f == lastOp.f
            focalTimeW == lastOp.preStart * CanvasWidth + lastOp.focalX * span
        IN  /\ newSpan * f.n = Clamp(span * f.d, MinSpan * f.n, One * f.n)
            /\ viewStart * CanvasWidth =
                   Clamp(focalTimeW - lastOp.focalX * newSpan, 0, (One - newSpan) * CanvasWidth)
            /\ (/\ lastOp.f = [n |-> 2, d |-> 1]
                /\ lastOp.focalX = 500
                /\ lastOp.preStart = 0
                /\ lastOp.preEnd = One)
               => (viewStart = One \div 4 /\ viewEnd = 3 * (One \div 4))

\* A zoom whose end hit 1 and whose start was re-clamped, and the zoom of
\* the example, have both happened.
C2_Witness ==
    /\ lastOp.op = "zoomAt"
    /\ viewEnd = One
    /\ viewStart > 0
    /\ lastOp.preStart * CanvasWidth + lastOp.focalX * (lastOp.preEnd - lastOp.preStart)
         - lastOp.focalX * (viewEnd - viewStart) > viewStart * CanvasWidth

\* C3: scrollBy(dx, canvas_width) moves start by (dx / canvas_width) * span,
\* clamped into [0, 1 - span], and leaves the span unchanged.
C3_ScrollByFormula ==
    lastOp.op = "scrollBy" =>
        LET span == lastOp.preEnd - lastOp.preStart
        IN  /\ viewStart * CanvasWidth =
                   Clamp(lastOp.preStart * CanvasWidth + lastOp.dx * span,
                         0, (One - span) * CanvasWidth)
            /\ viewEnd - viewStart = span

\* A scroll that was cut short at the right edge of the timeline.
C3_Witness ==
    /\ lastOp.op = "scrollBy"
    /\ lastOp.dx > 0
    /\ viewEnd = One
    /\ viewStart > 0
    /\ lastOp.preStart < viewStart
    /\ lastOp.preStart * CanvasWidth + lastOp.dx * (lastOp.preEnd - lastOp.preStart)
         > viewStart * CanvasWidth

\* Handlers that write the viewport on the user's behalf: wheel zoom and
\* scroll, drag pan, minimap drag, arrow and +/- keys.
ExplicitOps == {"wheelZoom", "wheelScroll", "canvas-pan", "minimap-slide", "minimap-select"}

ExplicitKeys == {"ArrowLeft", "ArrowRight", "+", "-"}

IsExplicitMutation(op) ==
    \/ op.op \in ExplicitOps
    \/ op.op = "key" /\ op.key \in ExplicitKeys

\* C1: after every viewport-changing operation the viewport satisfies
\* 0 <= start < end <= 1.
C1_ViewportInvariant == 0 <= viewStart /\ viewStart < viewEnd /\ viewEnd <= One

\* C8: once the viewport has been explicitly mutated while an animation is
\* in progress, the animation is cancelled: the animation step that follows
\* the mutation does not change the viewport.
C8_MutationCancelsAnimation ==
    [][(IsExplicitMutation(lastOp) /\ lastOp'.op = "animStep")
         => (viewStart' = viewStart /\ viewEnd' = viewEnd)]_vars

\* C9: at most one viewport animation is outstanding at any time, and it is
\* the one animationId names, so a superseded animation has no step left
\* that could write the viewport.
C9_SingleAnimation ==
    /\ Cardinality({fr \in raf : fr.cb = "step"}) <= 1
    /\ \A fr \in raf : fr.cb = "step" => fr.id = animationId

\* A new animation was started while another one was running.
C9_Witness ==
    /\ lastOp.op = "key"
    /\ lastOp.hadAnimation
    /\ animationId # NoId
    /\ \E fr \in raf : fr.id = animationId /\ fr.elapsed = 0

\* The numbers of the commands in a sequence of commands.
Numbers(q) == [i \in 1..Len(q) |-> q[i].n]

\* The numbers of the commands of qs that log shows started, in the order
\* they started.
StartedOf(lg, qs) ==
    Numbers(SelectSeq(lg, LAMBDA e : e.ev = "start" /\ \E k \in 1..Len(qs) : qs[k].n = e.n))

AttachReturned == wasm /\ \A k \in 1..Len(stack) : stack[k].fn # "attach"

\* C4: commands run one at a time in submission order: when a command
\* starts, every command submitted before it has finished, its
\* notification included.
C4_SerializedCommands ==
    \A i \in 1..Len(log) :
        log[i].ev = "start" =>
            \A m \in 1..(log[i].n - 1) :
                \E j \in 1..(i - 1) : log[j] = [ev |-> "end", n |-> m]

\* C5: no command runs before attach; once attach has returned the pending
\* queue is empty and the commands queued before it have each run exactly
\* once, in the order issued.  The same holds of the controller's enqueue
\* and _attach.
C5_PendingFlushedInOrder ==
    /\ ~wasm => log = <<>>
    /\ AttachReturned => /\ pending = <<>>
                         /\ StartedOf(log, queuedAtAttach) = Numbers(queuedAtAttach)
    /\ ~ctl.wasm => ctl.log = <<>>
    /\ ctl.wasm => /\ ctl.pending = <<>>
                   /\ Len(ctl.log) >= Len(ctl.queued)
                   /\ SubSeq(ctl.log, 1, Len(ctl.queued)) = ctl.queued

\* Attach has returned after flushing two or more queued commands, in the
\* store and in the controller, and a subscriber was notified on the way.
C5_Witness ==
    /\ AttachReturned
    /\ stack = <<>>
    /\ Len(queuedAtAttach) >= 2
    /\ listeners # <<>>
    /\ ctl.wasm
    /\ Len(ctl.queued) >= 2

\* The index of the visible lane whose body holds canvas row my, or -1.
targetLane(my) ==
    LET vis == visibleLanes(lanes)
        hits == {i \in 0..(Len(vis) - 1) : my >= bodyTop(i) /\ my <= bodyTop(i) + vis[i + 1].height}
    IN  IF hits = {} THEN -1 ELSE CHOOSE i \in hits : TRUE

\* The indices of the rects of cmds that hold the point and carry a frame_id.
Candidates(cmds, x, y) ==
    {k \in 1..Len(cmds) : cmds[k].frame_id # NoFrame /\ Contains(cmds[k], x, y)}

Last(S) == CHOOSE k \in S : \A o \in S : o <= k

\* C6, main.ts: the hit test returns the last drawn rect of the target
\* lane that holds the point and carries a frame_id, and null when there
\* is none.
C6_MainLastDrawnWins ==
    lastOp.op = "hitTest" =>
        LET i == targetLane(lastOp.y)
            vis == visibleLanes(lanes)
            cmds == layout[vis[i + 1].id]
            cand == Candidates(cmds, lastOp.x, lastOp.y - bodyTop(i))
        IN  IF i = -1 \/ cand = {}
              THEN hitResult = NoHit
              ELSE hitResult.found /\ hitResult.frameId = cmds[Last(cand)].frame_id

\* C6, render.ts: the hit test returns the span of the last drawn region
\* that holds the point, and none when there is no such region.
C6_ReactLastDrawnWins ==
    lastOp.op = "handleMouseMove" =>
        LET cand == {k \in 1..Len(hitRegions) : Contains(hitRegions[k], lastOp.x, lastOp.y)}
        IN  IF cand = {} THEN hoveredId = NoSpan
            ELSE hoveredId = hitRegions[Last(cand)].span.id

\* C6: hit testing at a point returns, among the rects of the target lane
\* that contain the point and carry a non-null frame_id, the one drawn
\* last, and none when no such rect exists.
C6_LastDrawnWins == C6_MainLastDrawnWins /\ C6_ReactLastDrawnWins

\* C7: a hit test never runs a view transform (wasm.render_view) and
\* changes neither the layout, the lanes nor the viewport.
C7_HitTestRunsNoTransform ==
    [][lastOp'.op \in {"hitTest", "handleMouseMove"}
         => /\ renderViewCalls' = renderViewCalls
            /\ UNCHANGED <<layout, hitRegions, lanes, viewStart, viewEnd, globalScrollY>>]_vars

\* C10: a load whose file fails to parse leaves the loaded profiles, the
\* lanes, the viewport and the profile-loaded flag as they were.
C10_FailedLoadChangesNothing ==
    [][(lastOp'.op = "loaded" /\ ~lastOp'.parsed)
         => UNCHANGED <<session, lanes, viewStart, viewEnd, globalScrollY, profileLoaded,
                        profileDuration>>]_vars

\* C11: after any load attempt no lane refers to a profile that is not in
\* the session: every lane's profileIndex is the handle of a loaded profile.
C11_LanesReferToLoadedProfiles ==
    \A k \in 1..Len(lanes) : lanes[k].profileIndex \in 0..(Len(session) - 1)

\* Lane heights the data model allows.
MinHeightPx == 16

MaxHeightPx == 600

\* C12: every lane's height is within [16, 600] pixels at all times.
C12_LaneHeightInRange ==
    \A k \in 1..Len(lanes) : lanes[k].height >= MinHeightPx /\ lanes[k].height <= MaxHeightPx

\* moveLane was called with two valid, distinct indices.
MovedLane ==
    /\ lastOp.op = "moveLane"
    /\ lastOp.fromIndex # lastOp.toIndex
    /\ lastOp.fromIndex \in 0..(Len(lastOp.pre) - 1)
    /\ lastOp.toIndex \in 0..(Len(lastOp.pre) - 1)

VisibleBefore(ls, n) == Cardinality({k \in 1..n : ls[k].visible})

RECURSIVE SumOver(_, _, _)
\* The sum of f[k] over the k in S.
SumOver(f, S, hdr) ==
    IF S = {} THEN 0
    ELSE LET k == CHOOSE x \in S : TRUE
         IN  f[k].height + hdr + SumOver(f, S \ {k}, hdr)

\* The visible lanes of ls that precede its i-th visible lane.
Preceding(ls, i) == {k \in 1..Len(ls) : ls[k].visible /\ VisibleBefore(ls, k - 1) < i}

\* C14 as stated: laneY(i) is the sum of the content heights of the visible
\* lanes that precede the i-th visible lane, headers excluded.
C14_LaneYExcludesHeaders ==
    lastOp.op = "laneY" => lastOp.result = SumOver(lanes, Preceding(lanes, lastOp.index), 0)

\* C14 amended: laneY(i) is the sum of header height plus content height
\* over the visible lanes that precede the i-th visible lane; hidden lanes
\* contribute nothing.
C14_LaneYIncludesHeaders ==
    lastOp.op = "laneY" =>
        lastOp.result = SumOver(lanes, Preceding(lanes, lastOp.index), HEADER_HEIGHT)

\* laneY was asked for a visible lane that has a hidden lane and two
\* visible lanes before it.
C14_Witness ==
    /\ lastOp.op = "laneY"
    /\ lastOp.index = 2
    /\ Len(lanes) = 4
    /\ lanes[4].visible
    /\ \E k \in 1..3 : ~lanes[k].visible
    /\ lastOp.result > 0

\* The visible lanes whose on-screen band holds row y: the band of lane i
\* starts at laneY(i) - globalScrollY and spans header plus content height.
BandsAt(y) ==
    LET vis == visibleLanes(lanes)
    IN  {i \in 0..(Len(vis) - 1) :
            /\ y >= laneY(lanes, i) - globalScrollY
            /\ y < laneY(lanes, i) - globalScrollY + HEADER_HEIGHT + vis[i + 1].height}

\* C15: laneAtY(y) returns the index of the visible lane whose on-screen
\* band (layout offset shifted up by globalScrollY, header plus content
\* height) contains y, and -1 when no band contains y.
C15_LaneAtYInvertsLayout ==
    lastOp.op = "laneAtY" =>
        IF BandsAt(lastOp.y) = {} THEN lastOp.result = -1
        ELSE BandsAt(lastOp.y) = {lastOp.result}

\* laneAtY found a lane of a scrolled layout that is not the lane of that
\* row in the unscrolled layout.
C15_Witness ==
    /\ lastOp.op = "laneAtY"
    /\ globalScrollY > 0
    /\ lastOp.result >= 1
    /\ lastOp.result # laneAtY(lanes, 0, lastOp.y)

\* C16: after scrollGlobal(dy, viewportHeight), globalScrollY is the
\* previous value plus dy clamped to [0, max(0, totalHeight -
\* viewportHeight)].
C16_ScrollGlobalClamped ==
    lastOp.op = "scrollGlobal" =>
        LET total == SumOver(lanes, {k \in 1..Len(lanes) : lanes[k].visible}, HEADER_HEIGHT)
            room == total - lastOp.viewportHeight
            maxScroll == IF room > 0 THEN room ELSE 0
            wanted == lastOp.pre + lastOp.dy
        IN  globalScrollY = IF wanted < 0 THEN 0
                            ELSE IF wanted > maxScroll THEN maxScroll
                            ELSE wanted

\* scrollGlobal stopped at a positive upper limit.
C16_Witness ==
    /\ lastOp.op = "scrollGlobal"
    /\ lastOp.pre + lastOp.dy > globalScrollY
    /\ globalScrollY > 0
    /\ globalScrollY = totalHeight(lanes) - lastOp.viewportHeight


\* A rect the viewer emitted for a span.
IsSpanRect(c) == c.cmd = "DrawRect" /\ c.frame_id # NoFrame

RECURSIVE SearchedByName(_, _, _)
\* The lane content in which every span rect is treated by its name.
SearchedByName(cmds, i, query) ==
    IF i > Len(cmds) THEN <<>>
    ELSE (IF IsSpanRect(cmds[i])
            THEN IF includes(toLowerCase(NameOf(cmds[i].frame_id)), toLowerCase(query))
                   THEN <<cmds[i], Overlay(cmds[i])>>
                   ELSE <<Dimmed(cmds[i])>>
            ELSE <<cmds[i]>>)
         \o SearchedByName(cmds, i + 1, query)

RECURSIVE SearchedLanes(_, _, _)
SearchedLanes(vis, i, query) ==
    IF i >= Len(vis) THEN <<>>
    ELSE << [cmd |-> "PushTransform", x |-> 0, y |-> bodyTop(i)],
            [cmd |-> "SetClip", w |-> CanvasWidth, h |-> vis[i + 1].height] >>
         \o SearchedByName(layout[vis[i + 1].id], 1, query)
         \o << [cmd |-> "ClearClip"], [cmd |-> "PopTransform"] >>
         \o SearchedLanes(vis, i + 1, query)

Rendered == lastOp.op \in {"search", "close", "click"}

\* C17: while a non-empty search query is set, the output of renderAll has
\* every span rect whose name contains the query, case-insensitively,
\* unchanged and followed by a SearchHighlight overlay, and every other
\* span rect with fill FlameNeutral and no border.
C17_SearchRecolorsEverySpan ==
    (Rendered /\ searchQuery # <<>>)
        => lastOp.rendered = SearchedLanes(visibleLanes(lanes), 0, searchQuery)

\* C18: when the search query is set to the empty string and the selection
\* is the one of the last output without a query, renderAll produces that
\* output again.
C18_ClearingSearchRestoresOutput ==
    (lastOp.op \in {"search", "close"} /\ lastOp.query = <<>>
       /\ lastOp.before.selected = selectedSpanName)
        => lastOp.rendered = lastOp.before.cmds

\* A query that recoloured the output was set and is cleared again.
C18_Witness ==
    /\ lastOp.op = "search"
    /\ lastOp.query = <<>>
    /\ lastOp.was = <<"p", "a", "r">>
    /\ lastOp.before.selected = selectedSpanName
    /\ Len(layout[1]) = 5
    /\ lastOp.rendered = lastOp.before.cmds
    /\ lastOp.rendered # renderAll(lastOp.was, selectedSpanName)


\* Two factors whose product is 1.
Inverse(f, g) == f.n * g.n = f.d * g.d

\* The last two operations were zoomAt(f, x) and then zoomAt(1/f, x).
ZoomedThereAndBack ==
    /\ lastOp.op = "zoomAt"
    /\ lastOp.prev.some
    /\ lastOp.prev.focalX = lastOp.focalX
    /\ Inverse(lastOp.prev.f, lastOp.f)

\* zoomAt(f, focalX) on the window [vs, ve] engages none of its clamps.
Unclamped(vs, ve, f, focalX) ==
    LET viewSpan == ve - vs
        newSpan == MulDiv(viewSpan, f.d, f.n)
        start == vs + MulDiv(viewSpan, focalX, CanvasWidth)
                    - MulDiv(newSpan, focalX, CanvasWidth)
    IN  /\ viewSpan * f.d >= MinSpan * f.n
        /\ viewSpan * f.d <= One * f.n
        /\ start >= 0
        /\ start + newSpan <= One

LifoIndependent(clip, transform, preClip, preTransform, h) ==
    /\ lastOp.op = "ClearClip"
         => /\ clip = (IF h.clips = <<>> THEN NoClip ELSE h.clips[Len(h.clips)])
            /\ transform = preTransform
    /\ lastOp.op = "PopTransform"
         => /\ transform = (IF h.txs = <<>> THEN Identity ELSE h.txs[Len(h.txs)])
            /\ clip = preClip

\* C20: for any command sequence the scissor stack and the transform stack
\* of both renderers behave as two independent LIFO stacks: ClearClip
\* reinstates the clip in force before the most recently set clip and
\* leaves the transform, PopTransform reinstates the transform in force
\* before the most recently pushed one and leaves the clip.
C20_ClipAndTransformStacksIndependent ==
    lastOp.op \in {"ClearClip", "PopTransform"}
        => /\ LifoIndependent(webgpu.currentScissor, webgpu.cur,
                              lastOp.pre.webgpu.currentScissor, lastOp.pre.webgpu.cur,
                              lastOp.pre.nesting.webgpu)
           /\ LifoIndependent(canvas2d.clip, canvas2d.transform,
                              lastOp.pre.canvas2d.clip, lastOp.pre.canvas2d.transform,
                              lastOp.pre.nesting.canvas2d)


RECURSIVE PowerOfTwoFrom(_, _)
\* The smallest p * 2^k at or above n.
PowerOfTwoFrom(p, n) == IF p >= n THEN p ELSE PowerOfTwoFrom(2 * p, n)

NextPowerOfTwo(n) == PowerOfTwoFrom(1, n)

\* C21: when a frame needs more instances than the buffer's capacity, the
\* buffer is replaced by one whose capacity is the next power of two at or
\* above the needed count; when the count fits, the buffer is kept as it is.
C21_BufferGrowsToNextPowerOfTwo ==
    lastOp.op = "ensureBuffer"
        => IF lastOp.count > lastOp.pre.capacity
             THEN /\ lastOp.post.id # lastOp.pre.id
                  /\ lastOp.post.capacity = NextPowerOfTwo(lastOp.count)
             ELSE lastOp.post = lastOp.pre


RECURSIVE IsDescendant(_, _)
\* Node n lies below node g in the SVG tree.
IsDescendant(n, g) ==
    IF n = 0 THEN FALSE
    ELSE svg.parent[n] = g \/ IsDescendant(svg.parent[n], g)

\* C22: in SVG output an element emitted after an EndGroup is not a
\* descendant of the group that this EndGroup closed.
C22_EndGroupClosesGroup ==
    lastOp.op = "svgDraw" => \A g \in groups.closed : ~IsDescendant(lastOp.node, g)


\* x, y, w, h of the hit regions, in order.
RectsOf(regions) ==
    [k \in 1..Len(regions) |->
        <<regions[k].x, regions[k].y, regions[k].w, regions[k].h>>]

\* renderFlameGraph has drawn A, B, C into a canvas 1000 wide showing the
\* whole profile.
RenderedABC ==
    /\ lastOp.op = "renderFlameGraph"
    /\ spans = SpansABC
    /\ lastOp.viewport = FullViewport
    /\ lastOp.width = 1000

\* C23: for spans A(0..1000, depth 0), B(100..400, depth 1) and
\* C(500..900, depth 1), viewport [0, 1], width 1000 and row height 20 the
\* layout yields exactly the rects (0, 0, 1000, 19), (100, 20, 300, 19),
\* (500, 20, 400, 19).
C23_ExampleLayout ==
    RenderedABC
        => RectsOf(hitRegions) = << <<0, 0, 1000, 19>>, <<100, 20, 300, 19>>, <<500, 20, 400, 19>> >>

C23_Witness == RenderedABC /\ Len(hitRegions) = 3 /\ hitRegions[2].span.id = 2

\* The on-screen width of span s in the last render is at least 0.5 px.
HalfPixelWide(s) ==
    LET tr == computeTimeRange(spans)
    IN  2 * (s.end - s.start) * lastOp.width * VpDen
            >= (lastOp.viewport.end - lastOp.viewport.start) * (tr.end - tr.start)

\* C24: a span whose on-screen width is below 0.5 px produces no rect and
\* no hit region; a span without duration is never drawn.
C24_SubPixelSpansDropped ==
    lastOp.op = "renderFlameGraph"
        => \A k \in 1..Len(hitRegions) :
              /\ HalfPixelWide(hitRegions[k].span)
              /\ hitRegions[k].span.end > hitRegions[k].span.start

\* A render that kept the root and dropped a child of no duration and a
\* child 0.4 px wide.
C24_Witness ==
    /\ lastOp.op = "renderFlameGraph"
    /\ Len(spans) = 3
    /\ spans[2].end = spans[2].start
    /\ spans[3].end > spans[3].start
    /\ ~HalfPixelWide(spans[3])
    /\ Len(hitRegions) = 1
    /\ hitRegions[1].span = spans[1]


\* ------------------------------------------------------------------------
\* The hooks useLanes and useViewport on a store whose viewer holds three
\* lanes.  A hook is called from the application
\* with a number for every numeric argument, NaN included; the command it
\* passes to exec is a frame on the stack (the viewer is being called) or
\* an entry of the pending queue.
\* ------------------------------------------------------------------------

\* Largest number of hook calls in one run.
MaxHookCalls == 2

\* The lanes of the viewer's state.
ViewerLanes ==
    << [name |-> "Main", kind |-> "thread", height |-> Num(200), visible |-> TRUE, span_count |-> 42],
       [name |-> "Worker", kind |-> "thread", height |-> Num(100), visible |-> TRUE, span_count |-> 10],
       [name |-> "Async", kind |-> "async", height |-> Num(60), visible |-> FALSE, span_count |-> 5] >>

\* Indices, heights and fractions handed to the hooks.
HookIndices == {NaN, Num(-1), Num(0), Num(2), Num(3)}

HookHeights == {NaN, Num(0), Num(300), Num(601)}

HookFractions == {NaN, Num(0 - One \div 2), Num(One \div 4), Num(One), Num(2 * One)}

\* store.laneCount
laneCount == Num(Len(snapshot.lanes))

\* A hook returns without calling exec.
noCall == [stack |-> stack, pending |-> pending, nextCmd |-> nextCmd]

\* store.exec((w) => w.op(arg)) called by a hook.
hookExec(op, arg) ==
    LET r == exec(stack, [n |-> nextCmd, op |-> op, arg |-> arg])
    IN  [stack |-> r.stack, pending |-> r.pending, nextCmd |-> nextCmd + 1]

\* useLanes().setVisibility(index, visible)
setVisibility(index, visible) ==
    IF lt(index, Num(0)) \/ ge(index, laneCount) THEN noCall
    ELSE hookExec("setLaneVisibility", [index |-> index, visible |-> visible])

\* Math.min(600, height): a height with no lower limit.
clampHeightNoFloor(height) == mathMin(Num(MaxHeightPx), height)

\* Math.max(16, Math.min(600, height))
clampHeight(height) == mathMax(Num(MinHeightPx), mathMin(Num(MaxHeightPx), height))

\* useLanes().setHeight(index, height)
setHeight(index, height) ==
    IF lt(index, Num(0)) \/ ge(index, laneCount) THEN noCall
    ELSE hookExec("setLaneHeight", [index |-> index, height |-> clampHeight(height)])

\* useLanes().reorder(fromIndex, toIndex); NaN === NaN is false.
reorder(fromIndex, toIndex) ==
    IF \/ lt(fromIndex, Num(0)) \/ ge(fromIndex, laneCount)
       \/ lt(toIndex, Num(0)) \/ ge(toIndex, laneCount)
      THEN noCall
    ELSE IF ~fromIndex.nan /\ ~toIndex.nan /\ fromIndex.v = toIndex.v THEN noCall
    ELSE hookExec("reorderLanes", [from |-> fromIndex, to |-> toIndex])

\* useViewport().setViewport(start, end)
setViewport(start, end) ==
    LET s == mathMax(Num(0), mathMin(Num(One), start))
        e == mathMax(s, mathMin(Num(One), end))
    IN  hookExec("setViewport", [s |-> s, e |-> e])

\* setVisibility(index, visible), called from the application.
UseLanesSetVisibility ==
    \E index \in HookIndices, visible \in BOOLEAN :
        /\ stack = <<>>
        /\ steps < MaxHookCalls
        /\ LET r == setVisibility(index, visible)
           IN  /\ stack' = r.stack
               /\ pending' = r.pending
               /\ nextCmd' = r.nextCmd
        /\ lastOp' = [op |-> "setVisibility", index |-> index, visible |-> visible]
        /\ steps' = steps + 1
        /\ UNCHANGED <<wasm, status, error, listeners, snapshot, wasmState, log, queuedAtAttach,
                       ctl>>
        /\ UNCHANGED <<laneVars, interactionVars, hitVars, loadVars, searchVars, renderVars,
                       svgVars, hostVars>>

\* setHeight(index, height), called from the application.
UseLanesSetHeight ==
    \E index \in HookIndices, height \in HookHeights :
        /\ stack = <<>>
        /\ steps < MaxHookCalls
        /\ LET r == setHeight(index, height)
           IN  /\ stack' = r.stack
               /\ pending' = r.pending
               /\ nextCmd' = r.nextCmd
        /\ lastOp' = [op |-> "setHeight", index |-> index, height |-> height]
        /\ steps' = steps + 1
        /\ UNCHANGED <<wasm, status, error, listeners, snapshot, wasmState, log, queuedAtAttach,
                       ctl>>
        /\ UNCHANGED <<laneVars, interactionVars, hitVars, loadVars, searchVars, renderVars,
                       svgVars, hostVars>>

\* reorder(fromIndex, toIndex), called from the application.
UseLanesReorder ==
    \E fromIndex \in HookIndices, toIndex \in HookIndices :
        /\ stack = <<>>
        /\ steps < MaxHookCalls
        /\ LET r == reorder(fromIndex, toIndex)
           IN  /\ stack' = r.stack
               /\ pending' = r.pending
               /\ nextCmd' = r.nextCmd
        /\ lastOp' = [op |-> "reorder", index |-> fromIndex, toIndex |-> toIndex]
        /\ steps' = steps + 1
        /\ UNCHANGED <<wasm, status, error, listeners, snapshot, wasmState, log, queuedAtAttach,
                       ctl>>
        /\ UNCHANGED <<laneVars, interactionVars, hitVars, loadVars, searchVars, renderVars,
                       svgVars, hostVars>>

\* setViewport(start, end), called from the application.
UseViewportSetViewport ==
    \E start \in HookFractions, end \in HookFractions :
        /\ stack = <<>>
        /\ steps < MaxHookCalls
        /\ LET r == setViewport(start, end)
           IN  /\ stack' = r.stack
               /\ pending' = r.pending
               /\ nextCmd' = r.nextCmd
        /\ lastOp' = [op |-> "setViewport", start |-> start, end |-> end]
        /\ steps' = steps + 1
        /\ UNCHANGED <<wasm, status, error, listeners, snapshot, wasmState, log, queuedAtAttach,
                       ctl>>
        /\ UNCHANGED <<laneVars, interactionVars, hitVars, loadVars, searchVars, renderVars,
                       svgVars, hostVars>>

\* A new store and a viewer with the lanes of ViewerLanes.
InitHooks ==
    /\ InitLaneManager
    /\ profileLoaded = FALSE
    /\ InitInteraction
    /\ wasm = FALSE
    /\ pending = <<>>
    /\ status = "loading"
    /\ error = Null
    /\ listeners = <<>>
    /\ snapshot = EMPTY_SNAPSHOT
    /\ wasmState = [theme |-> "dark", search |-> "", lanes |-> ViewerLanes,
                    viewport |-> [start |-> Num(0), end |-> Num(One)], profile |-> Null]
    /\ stack = <<>>
    /\ nextCmd = 1
    /\ log = <<>>
    /\ queuedAtAttach = <<>>
    /\ ctl = [wasm |-> FALSE, isReady |-> FALSE, pending |-> <<>>, log |-> <<>>, queued |-> <<>>]
    /\ providerError = Null
    /\ InitCanvas
    /\ InitLoad
    /\ InitSearch
    /\ InitRender
    /\ steps = 0
    /\ lastOp = NoOp

NextHooks ==
    \/ UseLanesSetVisibility
    \/ UseLanesSetHeight
    \/ UseLanesReorder
    \/ UseViewportSetViewport
    \/ Attach
    \/ AttachFlush
    \/ RunCommand
    \/ ReturnCommand
    \/ Refresh
    \/ Notify

SpecHooks == InitHooks /\ [][NextHooks]_vars

\* ------------------------------------------------------------------------
\* useTheme
\* ------------------------------------------------------------------------

\* Largest number of toggle() calls in one run.
MaxToggles == 4

\* useTheme().toggle(): the opposite of the snapshot's theme at the time of
\* the call is what the command sets.
toggle ==
    LET current == IF snapshot.theme = "" THEN "dark" ELSE snapshot.theme
    IN  hookExec("setTheme", IF current = "dark" THEN "light" ELSE "dark")

\* The component calls toggle().
UseThemeToggle ==
    /\ stack = <<>>
    /\ steps < MaxToggles
    /\ LET r == toggle
       IN  /\ stack' = r.stack
           /\ pending' = r.pending
           /\ nextCmd' = r.nextCmd
    /\ lastOp' = [op |-> "toggle", attached |-> wasm]
    /\ steps' = steps + 1
    /\ UNCHANGED <<wasm, status, error, listeners, snapshot, wasmState, log, queuedAtAttach,
                   ctl>>
    /\ UNCHANGED <<laneVars, interactionVars, hitVars, loadVars, searchVars, renderVars,
                   svgVars, hostVars>>

NextTheme ==
    \/ UseThemeToggle
    \/ Attach
    \/ AttachFlush
    \/ RunCommand
    \/ ReturnCommand
    \/ Refresh
    \/ Notify

SpecTheme == InitHooks /\ [][NextTheme]_vars

\* ------------------------------------------------------------------------
\* The store following a viewer whose state changes on its own account
\* (a profile is loaded, spans arrive, a lane is resized): the viewer takes
\* one of the states below and calls the onStateChange callback.
\* ------------------------------------------------------------------------

\* Largest number of state changes the viewer reports in one run.
MaxViewerChanges == 2

\* Profiles the viewer reports: none, a profile, the same profile under
\* another name and with one more thread, and a longer profile.
ViewerProfiles ==
    { Null,
      [null |-> FALSE, name |-> "a.json", duration_us |-> 1000, span_count |-> 57, thread_count |-> 2],
      [null |-> FALSE, name |-> "b.json", duration_us |-> 1000, span_count |-> 57, thread_count |-> 3],
      [null |-> FALSE, name |-> "c.json", duration_us |-> 2000, span_count |-> 57, thread_count |-> 2] }

\* Lane lists the viewer reports: the three lanes, the same lanes with more
\* spans in the first, with the third lane of another kind, with the first
\* lane resized, and the first lane alone.
ViewerLaneLists ==
    { ViewerLanes,
      [ViewerLanes EXCEPT ![1].span_count = 43],
      [ViewerLanes EXCEPT ![3].kind = "markers"],
      [ViewerLanes EXCEPT ![1].height = Num(300)],
      SubSeq(ViewerLanes, 1, 1) }

\* The viewer changes its state and calls the callback attach registered.
ViewerReports ==
    \E p \in ViewerProfiles, ls \in ViewerLaneLists :
        /\ wasm
        /\ stack = <<>>
        /\ steps < MaxViewerChanges
        /\ steps' = steps + 1
        /\ wasmState' = [wasmState EXCEPT !.profile = p, !.lanes = ls]
        /\ wasmState' # wasmState
        /\ stack' = <<[fn |-> "refresh"]>>
        /\ lastOp' = [op |-> "viewerReports"]
        /\ UNCHANGED <<wasm, pending, status, error, listeners, snapshot, nextCmd, log,
                       queuedAtAttach, ctl>>
        /\ UNCHANGED <<laneVars, interactionVars, hitVars, loadVars, searchVars, renderVars,
                       svgVars, hostVars>>

NextViewer ==
    \/ ViewerReports
    \/ Subscribe
    \/ Attach
    \/ AttachFlush
    \/ Refresh
    \/ Notify
    \/ RunCommand
    \/ ReturnCommand

SpecViewer == InitHooks /\ [][NextViewer]_vars

\* attach(wasm) is entered in this step.
AttachCalled == ~wasm /\ wasm'

\* What status and error allow together: loading before any attach with no
\* error, ready only once attached and with a null error, error with the
\* message of fail.
LifecycleConsistent ==
    /\ status \in {"loading", "ready", "error"}
    /\ status = "loading" => ~wasm /\ error = Null
    /\ status = "ready" => wasm /\ error = Null
    /\ status = "error" => error = Message

TopAfter == stack'[Len(stack')]

\* The entries of a sequence.
Range(q) == {q[k] : k \in 1..Len(q)}

C27_UnsubscribedNeverInvoked ==
    \A i \in 1..Len(stack) :
        (stack[i].fn = "notify" /\ stack[i].todo # <<>>)
            => Head(stack[i].todo) \in Range(listeners)

\* A subscriber that notify had ahead of it was unsubscribed by another
\* subscriber's callback, and notify called the rest.
C27_Witness ==
    /\ stack # <<>>
    /\ Top.fn = "notify"
    /\ Top.dropped # {}
    /\ Top.called # <<>>
    /\ \A l \in Top.dropped : l \notin Range(listeners) /\ l \notin Range(Top.called)

\* The hook op is called in this step.
HookStep(op) == steps' = steps + 1 /\ lastOp'.op = op

\* The command the hook called in this step passed to exec: the viewer is
\* being called with it, or it is the last of the pending queue.
Submitted == IF wasm THEN stack'[Len(stack')].c ELSE pending'[Len(pending')]

\* The step leaves the store and the viewer alone and starts no command.
NoCommand ==
    UNCHANGED <<wasm, pending, status, error, listeners, snapshot, wasmState, stack, log>>

\* i is not one of 0 .. laneCount - 1.
OutOfRange(i) == ~HasLane(snapshot.lanes, i)

\* C28: a lane command of useLanes (setVisibility, setHeight, reorder) given
\* an index outside [0, laneCount) changes nothing in the store or the
\* viewer, passes no command to the viewer now or later, and leaves status
\* and error alone.
C28_OutOfRangeIndexIsNoOp ==
    [][ /\ ((HookStep("setVisibility") \/ HookStep("setHeight")) /\ OutOfRange(lastOp'.index))
            => NoCommand
        /\ (HookStep("reorder") /\ (OutOfRange(lastOp'.index) \/ OutOfRange(lastOp'.toIndex)))
            => NoCommand ]_vars

\* min(600, max(16, h)) as JavaScript computes it.
clampedHeight(h) == mathMin(Num(MaxHeightPx), mathMax(Num(MinHeightPx), h))

InUnit(x) == ~x.nan /\ x.v >= 0 /\ x.v <= One

\* C30: setViewport(start, end) passes the viewer one setViewport(s, e) with
\* s and e in [0, 1], whatever the inputs; inputs in [0, 1] with
\* start <= end are passed as they are.
C30_SetViewportForwardsUnitPair ==
    [][ HookStep("setViewport")
          => /\ Submitted.op = "setViewport"
             /\ InUnit(Submitted.arg.s)
             /\ InUnit(Submitted.arg.e)
             /\ (InUnit(lastOp'.start) /\ InUnit(lastOp'.end) /\ lastOp'.start.v <= lastOp'.end.v)
                   => Submitted.arg = [s |-> lastOp'.start, e |-> lastOp'.end] ]_vars

\* onMouseMove moves the minimap's viewport indicator in this step; d is
\* the fraction of the canvas width the pointer went since the last event.
SlideStep == drag.kind = "minimap-slide" /\ lastOp'.op = "minimap-slide" /\ steps' = steps + 1

SlideDelta == drag'.startFrac - drag.startFrac

C32_TimeSelectionInUnitRange ==
    timeSelection # Null =>
        /\ 0 <= timeSelection.start
        /\ timeSelection.start <= timeSelection.end
        /\ timeSelection.end <= One

\* The WASD loop is at rest: no tick is scheduled and both velocities are 0.
WasdStopped == ~wasd.animId /\ wasd.panVelocity = 0 /\ wasd.zoomVelocity = 0

\* C33: whenever none of the keys W, A, S, D is held down, the WASD loop
\* comes to rest (no tick scheduled, both velocities 0) unless a key is
\* pressed again first.
C33_WasdLoopStops ==
    [](keyboard.down = {} => <>(WasdStopped \/ keyboard.down # {}))

\* C34: once init() of the provider has finished, the store has left
\* "loading": it is "ready" after store.attach and "error" after a failure.
C34_InitLeavesLoading ==
    /\ wasm => status = "ready"
    /\ providerError # Null => status = "error"

\* C35: while subscribers are being notified, and when they have been, the
\* snapshot has the field values of the state the viewer reports.
C35_SnapshotEqualsViewerState ==
    (stack # <<>> /\ Top.fn = "notify") => snapshot = wasmState

RECURSIVE openAfter(_, _, _)
\* The transforms and clips still open after the commands from the i-th
\* on, or <<"unmatched">> when one closes what is not the innermost open.
openAfter(cmds, i, open) ==
    IF i > Len(cmds) THEN open
    ELSE IF cmds[i].cmd \in {"PushTransform", "SetClip"}
           THEN openAfter(cmds, i + 1, Append(open, cmds[i].cmd))
    ELSE IF cmds[i].cmd = "PopTransform"
           THEN IF open # <<>> /\ open[Len(open)] = "PushTransform"
                  THEN openAfter(cmds, i + 1, SubSeq(open, 1, Len(open) - 1))
                  ELSE <<"unmatched">>
    ELSE IF cmds[i].cmd = "ClearClip"
           THEN IF open # <<>> /\ open[Len(open)] = "SetClip"
                  THEN openAfter(cmds, i + 1, SubSeq(open, 1, Len(open) - 1))
                  ELSE <<"unmatched">>
    ELSE openAfter(cmds, i + 1, open)

\* C36: the command list of every frame is balanced and properly nested,
\* whichever of the viewer's render calls throw.
C36_FrameCommandsBalanced ==
    lastOp.op = "frame" => openAfter(lastOp.commands, 1, <<>>) = <<>>

\* C37: once the viewer is attached and no call is running, the theme is
\* the initial one after an even number of toggle() calls and the other one
\* after an odd number, wherever the calls were made.
C37_TogglesFlipTheme ==
    (wasm /\ stack = <<>>) => wasmState.theme = (IF steps % 2 = 0 THEN "dark" ELSE "light")

\* C38: when every load started from the file input has finished, the one
\* that finished last, whose session, lanes and viewport are in place, is
\* the one requested last.
C38_LastRequestWins ==
    (loads = {} /\ lastOp.op = "loaded") =>
        /\ lastOp.n = steps
        /\ Len(session) = 1

\* A running animation ends: no frame is left scheduled.
AnimationEnds == (animationId # NoId) ~> (animationId = NoId /\ raf = {})

\* C39: the last frame of an animation leaves the viewport exactly at the
\* target and no frame scheduled.
C39_AnimationEndsAtTarget ==
    lastOp.op = "animEnd" =>
        /\ viewStart = lastOp.targetStart
        /\ viewEnd = lastOp.targetEnd
        /\ animationId = NoId
        /\ raf = {}

\* The press at height y is on the header strip of the visible lane i as
\* the frame shows it: renderAll draws the header at laneY(i) -
\* globalScrollY below the minimap and the time axis.
OnHeaderOnScreen(i, y) ==
    LET top == laneY(lanes, i) - globalScrollY + minimapHeight
    IN  y >= top /\ y < top + HEADER_HEIGHT

\* C40: a press that starts a lane reorder is on the header strip of that
\* lane as shown on screen, and a press in the left 24 px that starts a
\* pan is on no header strip.
C40_ReorderOnlyFromHeader ==
    lastOp.op = "mouseDown" =>
        /\ drag.kind = "lane-reorder" => OnHeaderOnScreen(drag.visibleIndex, drag.startY)
        /\ (drag.kind = "canvas-pan" /\ drag.lastX < 24) =>
                \A i \in 0..(Len(visibleLanes(lanes)) - 1) : ~OnHeaderOnScreen(i, drag.lastY)

====
